---- MODULE Spec2Model ----
(***************************************************************************)
(* Model of the tbc edge workers:                                          *)
(*   - the organizations-map worker: the chunked, checkpointed export job  *)
(*     (processSingleChunk, fetchAirtableChunk, handleAutoComplete);       *)
(*   - the network-map worker: regenerate, the pull-through image proxy    *)
(*     and the background image cache writes.                              *)
(* Every HTTP handler invocation is one action.  Blob storage and the      *)
(* upstream table are the environment; a storage or upstream call may fail *)
(* where the action draws a fault.                                         *)
(***************************************************************************)
EXTENDS Integers, Sequences, FiniteSets, Bags, TLC

(* ------------------------------ bounds -------------------------------- *)

\* Largest number of pages the upstream table holds.
MaxUpstreamPages == 3
\* Records per full upstream page (the code asks for pageSize=100).
PageSize == 2
\* Largest number of records with unusable coordinates in one table.
MaxBad == 1
\* Largest number of job ids minted by crypto.randomUUID() in one behaviour.
MaxMint == 3
\* Largest number of chunks one job may checkpoint when callers override cursors.
MaxChunks == 2
\* Largest number of background tasks (ctx.waitUntil) pending at once.
MaxPending == 2

\* AIRTABLE_PAGE_LIMIT values tried; 0 stands for unset or not a number.
PageLimits == {0, 1, 2}
\* Job ids a caller may put in the request body.
ClientJobIds == {<<"client", 1>>}

(* ------------------------------ values -------------------------------- *)

\* cursor: null (state initialiser) / no cursor in the body.
NoCursor == 0
\* cursor: "" in the body: not null, but falsy.
EmptyCursor == -1

NoJob == <<"none", 0>>
MintedJobIds == {<<"uuid", k>> : k \in 1..MaxMint}
JobIds == ClientJobIds \cup MintedJobIds

Range(s) == {s[i] : i \in DOMAIN s}

\* Field values of an upstream record, as JSON gives them.
JNull == [t |-> "null", n |-> 0, s |-> ""]
JNum(k) == [t |-> "num", n |-> k, s |-> ""]
JStr(x) == [t |-> "str", n |-> 0, s |-> x]
\* A finite number that is not an integer.
JFrac == [t |-> "frac", n |-> 0, s |-> ""]
NaN == [t |-> "nan", n |-> 0, s |-> ""]
Infinity == [t |-> "inf", n |-> 0, s |-> ""]

\* String.prototype.trim on the strings the model uses.
trim(x) ==
  CASE x = " 7 " -> "7"
    [] x = "   " -> ""
    [] OTHER -> x

\* Number(string) on the trimmed strings the model uses.
NumberOfString(x) ==
  CASE x = "7" -> JNum(7)
    [] x = "" -> JNum(0)
    [] x = "0" -> JNum(0)
    [] x \in {"1", "1e0"} -> JNum(1)
    [] x = "5" -> JNum(5)
    [] x = "6" -> JNum(6)
    [] x = "-1" -> JNum(-1)
    [] x = "1.5" -> JFrac
    [] x = "Infinity" -> Infinity
    [] OTHER -> NaN

toNum(v) ==
  IF v.t = "null" THEN NaN
  ELSE IF v.t = "str" THEN NumberOfString(trim(v.s))
  ELSE v

isFinite(x) == x.t \in {"num", "frac"}

\* Coordinates that make recordsToFeatures drop a record; which one a bad
\* record carries goes by its id.
BadCoord(id) ==
  CASE id % 3 = 0 -> JNull
    [] id % 3 = 1 -> JStr("abc")
    [] OTHER -> JStr("Infinity")

(* --------------------------- upstream table --------------------------- *)

\* The pages of a table of P pages whose last page holds lastLen records;
\* record ids count up in page order.
PageOf(p, len, badIds) ==
  [i \in 1..len |->
     LET id == (p - 1) * PageSize + i IN
     [id |-> id,
      lat |-> IF id \in badIds /\ id % 2 = 0 THEN BadCoord(id) ELSE JNum(id),
      lon |-> IF id \in badIds /\ id % 2 = 1 THEN BadCoord(id)
              ELSE JStr(" 7 ")]]

MakeTable(P, lastLen, badIds) ==
  [p \in 1..P |-> PageOf(p, IF p = P THEN lastLen ELSE PageSize, badIds)]

\* One upstream page request: offset NoCursor (none) is the first page, the
\* token k (2..P) is page k; anything else is refused.
Upstream(tbl, offset) ==
  LET p == IF offset = NoCursor THEN 1 ELSE offset IN
  IF (offset = NoCursor \/ offset >= 2) /\ p \in 1..Len(tbl)
    THEN [ok |-> TRUE, status |-> 200, records |-> tbl[p],
          offset |-> IF p < Len(tbl) THEN p + 1 ELSE NoCursor]
    ELSE [ok |-> FALSE, status |-> 422, records |-> <<>>, offset |-> NoCursor]

RECURSIVE Flatten(_)
Flatten(pages) ==
  IF pages = <<>> THEN <<>> ELSE Head(pages) \o Flatten(Tail(pages))

(* ------------------------------ blob store ---------------------------- *)

EmptyBucket == [k \in {} |-> 0]

DocKey == [kind |-> "doc", job |-> NoJob, seq |-> <<>>]
StateKey(jobId) == [kind |-> "state", job |-> jobId, seq |-> <<>>]

RECURSIVE Digits(_)
Digits(n) == IF n < 10 THEN <<n>> ELSE Append(Digits(n \div 10), n % 10)

RECURSIVE padStart(_, _)
padStart(d, len) == IF Len(d) >= len THEN d ELSE padStart(<<0>> \o d, len)

ChunkKey(jobId, n) == [kind |-> "chunk", job |-> jobId, seq |-> padStart(Digits(n), 4)]

Has(b, k) == k \in DOMAIN b
Put(b, k, v) == [x \in DOMAIN b \cup {k} |-> IF x = k THEN v ELSE b[x]]
Delete(b, k) == [x \in DOMAIN b \ {k} |-> b[x]]

\* JSON.stringify / JSON.parse of plain data.
Stringify(v) == [json |-> v]
Parse(t) == t.json

\* One I/O call of a handler, for the invocation's I/O log.
IoUp(offset) == [op |-> "upstream", key |-> [kind |-> "page", job |-> NoJob, seq |-> <<offset>>]]
IoGet(k) == [op |-> "get", key |-> k]
IoPut(k) == [op |-> "put", key |-> k]
IoDel(k) == [op |-> "delete", key |-> k]

(* ------------------------------- faults ------------------------------- *)

\* at: the call that throws ("none": none does); n: which upstream request
\* or which chunk read; delFail: the chunk deletes that reject; stateDelFail:
\* the checkpoint delete rejects.
Fault(at, n, delFail, stateDelFail) ==
  [at |-> at, n |-> n, delFail |-> delFail, stateDelFail |-> stateDelFail]
NoFault == Fault("none", 0, {}, FALSE)

(* --------------------------- paginated fetch --------------------------- *)

\* env.ORG_TABLE_NAME || "Master List"
tableName == "Master List"

\* The message of the error a refused page request throws:
\* `Airtable error ${resp.status}: ${await resp.text()}`
AirtableError(status) == <<"Airtable error ", ToString(status), ": ", "body">>

RECURSIVE fetchLoop(_, _, _, _, _, _, _)
fetchLoop(tbl, nextOffset, pagesUsed, records, maxPages, failAt, reqs) ==
  IF ~(pagesUsed < maxPages)
    THEN [threw |-> FALSE, records |-> records, nextCursor |-> nextOffset,
          pagesUsed |-> pagesUsed, reqs |-> reqs, error |-> <<>>]
    ELSE
      LET off == IF nextOffset = EmptyCursor THEN NoCursor ELSE nextOffset
          data == Upstream(tbl, off)
          used == pagesUsed + 1
          asked == Append(reqs, off)
      IN
      IF ~data.ok \/ used = failAt
        THEN [threw |-> TRUE, records |-> <<>>, nextCursor |-> NoCursor,
              pagesUsed |-> used, reqs |-> asked,
              error |-> AirtableError(IF data.ok THEN 500 ELSE data.status)]
        ELSE IF data.offset # NoCursor
          THEN fetchLoop(tbl, data.offset, used, records \o data.records,
                         maxPages, failAt, asked)
          ELSE [threw |-> FALSE, records |-> records \o data.records,
                nextCursor |-> NoCursor, pagesUsed |-> used, reqs |-> asked,
                error |-> <<>>]

\* fetchAirtableChunk reading one page more than maxPages.
fetchAirtableChunkExtraPage(tbl, offset, maxPages, failAt) ==
  fetchLoop(tbl, offset, 0, <<>>, maxPages + 1, failAt, <<>>)

fetchAirtableChunk(tbl, offset, maxPages, failAt) ==
  fetchLoop(tbl, offset, 0, <<>>, maxPages, failAt, <<>>)

clampPages(raw) ==
  IF raw <= 0 THEN 10
  ELSE IF raw > 20 THEN 20 ELSE IF raw < 1 THEN 1 ELSE raw

(* ------------------------- record -> feature --------------------------- *)

\* recordsToFeatures testing the latitude alone.
RECURSIVE recordsToFeaturesLatOnly(_)
recordsToFeaturesLatOnly(records) ==
  IF records = <<>> THEN <<>>
  ELSE
    LET r == Head(records)
        lat == toNum(r.lat)
        lon == toNum(r.lon)
        rest == recordsToFeaturesLatOnly(Tail(records))
    IN
    IF ~isFinite(lat) THEN rest
    ELSE <<[id |-> r.id, coordinates |-> <<lon.n, lat.n>>]>> \o rest

RECURSIVE recordsToFeatures(_)
recordsToFeatures(records) ==
  IF records = <<>> THEN <<>>
  ELSE
    LET r == Head(records)
        lat == toNum(r.lat)
        lon == toNum(r.lon)
        rest == recordsToFeatures(Tail(records))
    IN
    IF ~isFinite(lat) \/ ~isFinite(lon) THEN rest
    ELSE <<[id |-> r.id, coordinates |-> <<lon.n, lat.n>>]>> \o rest

(* ---------------------------- export step ------------------------------ *)

FreshState(jobId) ==
  [jobId |-> jobId, cursor |-> NoCursor, chunkKeys |-> <<>>,
   chunkCount |-> 0, totalFeatures |-> 0]

readState(b, key) ==
  IF Has(b, key) THEN [found |-> TRUE, value |-> Parse(b[key])]
  ELSE [found |-> FALSE, value |-> FreshState(NoJob)]

Resp(status, kind, jobId, nextCursor, processed, totalFeatures, features, pagesUsed) ==
  [status |-> status, kind |-> kind, jobId |-> jobId, nextCursor |-> nextCursor,
   processed |-> processed, totalFeatures |-> totalFeatures,
   features |-> features, pagesUsed |-> pagesUsed]

NoResp == Resp(0, "none", NoJob, NoCursor, 0, 0, 0, 0)
\* The top-level catch: any thrown error becomes a 500 JSON error.
ErrorResp(jobId) == Resp(500, "error", jobId, NoCursor, 0, 0, 0, 0)
Unauthorized == Resp(401, "unauthorized", NoJob, NoCursor, 0, 0, 0, 0)

NoFetch == [threw |-> FALSE, records |-> <<>>, nextCursor |-> NoCursor,
            pagesUsed |-> 0, reqs |-> <<>>, error |-> <<>>]

\* The locals of one invocation of the step, kept for the properties.
\* kept: the keys whose delete was rejected.
Locals(jobId, state, startCursor, maxPages, fetched, features, kept) ==
  [jobId |-> jobId, state |-> state, startCursor |-> startCursor,
   maxPages |-> maxPages, fetched |-> fetched, features |-> features,
   kept |-> kept]

NoLocals == Locals(NoJob, FreshState(NoJob), NoCursor, 0, NoFetch, <<>>, {})

Out(b, r, l, io) == [bucket |-> b, resp |-> r, loc |-> l, io |-> io]

\* The finalize loop over state.chunkKeys from index i on: read a chunk,
\* append its features, delete it (a rejected delete is swallowed).
RECURSIVE replayChunks(_, _, _, _, _, _, _)
replayChunks(b, chunkKeys, i, allFeatures, io, kept, fault) ==
  IF i > Len(chunkKeys)
    THEN [threw |-> FALSE, bucket |-> b, allFeatures |-> allFeatures, io |-> io,
          kept |-> kept]
    ELSE
      LET key == chunkKeys[i] IN
      IF fault.at = "chunkGet" /\ fault.n = i
        THEN [threw |-> TRUE, bucket |-> b, allFeatures |-> allFeatures,
              io |-> Append(io, IoGet(key)), kept |-> kept]
        ELSE IF ~Has(b, key)
          THEN replayChunks(b, chunkKeys, i + 1, allFeatures,
                            Append(io, IoGet(key)), kept, fault)
          ELSE replayChunks(IF i \in fault.delFail THEN b ELSE Delete(b, key),
                            chunkKeys, i + 1, allFeatures \o Parse(b[key]),
                            io \o <<IoGet(key), IoDel(key)>>,
                            IF i \in fault.delFail THEN kept \cup {key} ELSE kept,
                            fault)

FeatureCollection(features) == [type |-> "FeatureCollection", features |-> features]

\* finalize publishing the final step's features alone.
finalizeOnlyLast(b, jobId, state, features, loc, io0, pagesUsed, fault) ==
  LET stateKey == StateKey(jobId)
      replay == replayChunks(b, state.chunkKeys, 1, <<>>, io0, {}, fault)
      published == Put(replay.bucket, DocKey, Stringify(FeatureCollection(features)))
  IN
  Out(Delete(published, stateKey),
      Resp(200, "completed", jobId, NoCursor, 0, 0,
           state.totalFeatures + Len(features), pagesUsed),
      loc, replay.io \o <<IoPut(DocKey), IoDel(stateKey)>>)

\* finalize putting the final step's features before the chunks.
finalizeLastFirst(b, jobId, state, features, loc, io0, pagesUsed, fault) ==
  LET stateKey == StateKey(jobId)
      replay == replayChunks(b, state.chunkKeys, 1, <<>>, io0, {}, fault)
      published == Put(replay.bucket, DocKey,
                       Stringify(FeatureCollection(features \o replay.allFeatures)))
  IN
  Out(Delete(published, stateKey),
      Resp(200, "completed", jobId, NoCursor, 0, 0,
           state.totalFeatures + Len(features), pagesUsed),
      loc, replay.io \o <<IoPut(DocKey), IoDel(stateKey)>>)

\* finalize leaving the checkpoint in place.
finalizeKeepsState(b, jobId, state, features, loc, io0, pagesUsed, fault) ==
  LET replay == replayChunks(b, state.chunkKeys, 1, <<>>, io0, {}, fault)
      published == Put(replay.bucket, DocKey,
                       Stringify(FeatureCollection(replay.allFeatures \o features)))
  IN
  Out(published,
      Resp(200, "completed", jobId, NoCursor, 0, 0,
           state.totalFeatures + Len(features), pagesUsed),
      [loc EXCEPT !.kept = replay.kept], Append(replay.io, IoPut(DocKey)))

\* No more upstream pages: gather the stored chunks, publish, clean up.
finalize(b, jobId, state, features, loc, io0, pagesUsed, fault) ==
  LET stateKey == StateKey(jobId)
      replay == replayChunks(b, state.chunkKeys, 1, <<>>, io0, {}, fault)
      allFeatures == replay.allFeatures \o features
      totalCount == state.totalFeatures + Len(features)
      fc == Stringify(FeatureCollection(allFeatures))
      published == Put(replay.bucket, DocKey, fc)
  IN
  IF replay.threw THEN Out(replay.bucket, ErrorResp(jobId), loc, replay.io)
  ELSE IF fault.at = "docPut"
    THEN Out(replay.bucket, ErrorResp(jobId), loc, Append(replay.io, IoPut(DocKey)))
  ELSE Out(IF fault.stateDelFail THEN published ELSE Delete(published, stateKey),
           Resp(200, "completed", jobId, NoCursor, 0, 0, totalCount, pagesUsed),
           [loc EXCEPT !.kept = replay.kept \cup
                                  (IF fault.stateDelFail THEN {stateKey} ELSE {})],
           replay.io \o <<IoPut(DocKey), IoDel(stateKey)>>)

\* saveChunk that overwrites the running total with this step's count.
saveChunkTotalReset(b, jobId, state, features, nextCursor, loc, io0, pagesUsed, fault) ==
  LET stateKey == StateKey(jobId)
      chunkKey == ChunkKey(jobId, state.chunkCount + 1)
      state1 == [state EXCEPT !.cursor = nextCursor,
                               !.chunkCount = state.chunkCount + 1,
                               !.chunkKeys = Append(state.chunkKeys, chunkKey),
                               !.totalFeatures = Len(features)]
  IN
  Out(Put(Put(b, chunkKey, Stringify(features)), stateKey, Stringify(state1)),
      Resp(200, "in_progress", jobId, nextCursor, Len(features),
           state1.totalFeatures, 0, pagesUsed),
      loc, io0 \o <<IoPut(chunkKey), IoPut(stateKey)>>)

\* saveChunk publishing what it has so far as the document too.
saveChunkPublishes(b, jobId, state, features, nextCursor, loc, io0, pagesUsed, fault) ==
  LET stateKey == StateKey(jobId)
      chunkKey == ChunkKey(jobId, state.chunkCount + 1)
      state1 == [state EXCEPT !.cursor = nextCursor,
                               !.chunkCount = state.chunkCount + 1,
                               !.chunkKeys = Append(state.chunkKeys, chunkKey),
                               !.totalFeatures = state.totalFeatures + Len(features)]
      withChunk == Put(b, chunkKey, Stringify(features))
  IN
  Out(Put(Put(withChunk, DocKey, Stringify(FeatureCollection(features))),
          stateKey, Stringify(state1)),
      Resp(200, "in_progress", jobId, nextCursor, Len(features),
           state1.totalFeatures, 0, pagesUsed),
      loc, io0 \o <<IoPut(chunkKey), IoPut(DocKey), IoPut(stateKey)>>)

\* saveChunk writing the checkpoint before the chunk.
saveChunkStateFirst(b, jobId, state, features, nextCursor, loc, io0, pagesUsed, fault) ==
  LET stateKey == StateKey(jobId)
      chunkKey == ChunkKey(jobId, state.chunkCount + 1)
      state1 == [state EXCEPT !.cursor = nextCursor,
                               !.chunkCount = state.chunkCount + 1,
                               !.chunkKeys = Append(state.chunkKeys, chunkKey),
                               !.totalFeatures = state.totalFeatures + Len(features)]
      withState == Put(b, stateKey, Stringify(state1))
  IN
  IF fault.at = "statePut"
    THEN Out(b, ErrorResp(jobId), loc, Append(io0, IoPut(stateKey)))
  ELSE IF fault.at = "chunkPut"
    THEN Out(withState, ErrorResp(jobId), loc, io0 \o <<IoPut(stateKey), IoPut(chunkKey)>>)
  ELSE Out(Put(withState, chunkKey, Stringify(features)),
           Resp(200, "in_progress", jobId, nextCursor, Len(features),
                state1.totalFeatures, 0, pagesUsed),
           loc,
           io0 \o <<IoPut(stateKey), IoPut(chunkKey)>>)

\* saveChunk leaving chunkCount as it read it.
saveChunkCountKept(b, jobId, state, features, nextCursor, loc, io0, pagesUsed, fault) ==
  LET stateKey == StateKey(jobId)
      chunkKey == ChunkKey(jobId, state.chunkCount + 1)
      state1 == [state EXCEPT !.cursor = nextCursor,
                               !.chunkKeys = Append(state.chunkKeys, chunkKey),
                               !.totalFeatures = state.totalFeatures + Len(features)]
  IN
  Out(Put(Put(b, chunkKey, Stringify(features)), stateKey, Stringify(state1)),
      Resp(200, "in_progress", jobId, nextCursor, Len(features),
           state1.totalFeatures, 0, pagesUsed),
      loc, io0 \o <<IoPut(chunkKey), IoPut(stateKey)>>)

\* A chunk key numbered after the job's chunks found in the bucket.
chunkKeyOfNextFree(b, jobId, state) ==
  ChunkKey(jobId, Cardinality({k \in DOMAIN b : k.kind = "chunk" /\ k.job = jobId}) + 1)

\* `${CHUNK_PREFIX}${jobId}/chunk-${String(state.chunkCount + 1).padStart(4, "0")}.json`
chunkKeyOf(b, jobId, state) == ChunkKey(jobId, state.chunkCount + 1)

\* More to pull: persist this chunk, then the checkpoint, and report progress.
saveChunk(b, jobId, state, features, nextCursor, loc, io0, pagesUsed, fault) ==
  LET stateKey == StateKey(jobId)
      chunkKey == chunkKeyOf(b, jobId, state)
      withChunk == Put(b, chunkKey, Stringify(features))
      state1 == [state EXCEPT !.cursor = nextCursor,
                               !.chunkCount = state.chunkCount + 1,
                               !.chunkKeys = Append(state.chunkKeys, chunkKey),
                               !.totalFeatures = state.totalFeatures + Len(features)]
  IN
  IF fault.at = "chunkPut"
    THEN Out(b, ErrorResp(jobId), loc, Append(io0, IoPut(chunkKey)))
  ELSE IF fault.at = "statePut"
    THEN Out(withChunk, ErrorResp(jobId), loc, io0 \o <<IoPut(chunkKey), IoPut(stateKey)>>)
  ELSE Out(Put(withChunk, stateKey, Stringify(state1)),
           Resp(200, "in_progress", jobId, nextCursor, Len(features),
                state1.totalFeatures, 0, pagesUsed),
           loc,
           io0 \o <<IoPut(chunkKey), IoPut(stateKey)>>)

\* startCursor taking the stored cursor whenever there is one.
startCursorOfStoredFirst(payloadCursor, state) ==
  IF state.cursor # NoCursor THEN state.cursor ELSE payloadCursor

\* payload.cursor != null ? payload.cursor : state.cursor
startCursorOf(payloadCursor, state) ==
  IF payloadCursor # NoCursor THEN payloadCursor ELSE state.cursor

\* A step that takes every fetch to have more to pull.
moreToPullAlways(nextCursor) == TRUE

\* if (nextCursor): null and "" are both falsy.
moreToPull(nextCursor) == nextCursor \notin {NoCursor, EmptyCursor}

processSingleChunk(b, tbl, jobId, payloadCursor, maxPages, fault) ==
  LET stateKey == StateKey(jobId)
      existing == readState(b, stateKey)
      state == IF existing.found THEN existing.value ELSE FreshState(jobId)
      startCursor == startCursorOf(payloadCursor, state)
      \* offset: startCursor || undefined
      offset == IF startCursor = EmptyCursor THEN NoCursor ELSE startCursor
      fetched == fetchAirtableChunk(tbl, offset, maxPages,
                                    IF fault.at = "fetch" THEN fault.n ELSE 0)
      features == recordsToFeatures(fetched.records)
      ioRead == <<IoGet(stateKey)>>
      ioFetch == ioRead \o [i \in 1..Len(fetched.reqs) |-> IoUp(fetched.reqs[i])]
      loc == Locals(jobId, state, startCursor, maxPages, fetched, features, {})
  IN
  IF fault.at = "stateGet"
    THEN Out(b, ErrorResp(jobId),
             Locals(jobId, FreshState(jobId), NoCursor, maxPages, NoFetch, <<>>, {}),
             ioRead)
  ELSE IF fetched.threw
    THEN Out(b, ErrorResp(jobId),
             Locals(jobId, state, startCursor, maxPages, fetched, <<>>, {}), ioFetch)
  ELSE IF moreToPull(fetched.nextCursor)
    THEN saveChunk(b, jobId, state, features, fetched.nextCursor, loc, ioFetch,
                   fetched.pagesUsed, fault)
  ELSE finalize(b, jobId, state, features, loc, ioFetch, fetched.pagesUsed, fault)

(* --------------------------- authorization ----------------------------- *)

\* An Authorization header: the text before the credential and the credential.
Header(pre, cred) == [pre |-> pre, cred |-> cred]
NoHeader == Header("", "")
RegenToken == "s3cret"

\* (header || "").replace(/^Bearer\s+/i, ""): the token as <<prefix left, text>>.
stripBearer(h) ==
  IF h.pre \in {"Bearer ", "bearer  "} THEN <<"", h.cred>> ELSE <<h.pre, h.cred>>

\* authorized without the comparison with the secret.
authorizedAnyToken(h) == stripBearer(h) # <<"", "">>

\* !(!token || token !== env.REGEN_TOKEN)
authorized(h) ==
  LET token == stripBearer(h) IN
  ~(token = <<"", "">>) /\ token = <<"", RegenToken>>

Headers ==
  {NoHeader, Header("Bearer ", RegenToken), Header("bearer  ", RegenToken),
   Header("", RegenToken), Header("Bearer ", "wrong"), Header("Bearer ", ""),
   Header("Basic ", RegenToken), Header("Bearer", RegenToken)}

(* ------------------------- property normalizers ------------------------ *)

\* A field value as the upstream JSON carries it.  A string is the sequence
\* of its characters; an object is the sequence of its members in order.
VNull == [t |-> "null"]
VStr(s) == [t |-> "str", s |-> s]
VNum(n) == [t |-> "num", n |-> n]
VList(items) == [t |-> "list", items |-> items]
VObj(members) == [t |-> "obj", members |-> members]
Member(k, v) == [k |-> k, v |-> v]

\* String.prototype.trim on a sequence of characters.
RECURSIVE trimStart(_)
trimStart(s) == IF s # <<>> /\ Head(s) = " " THEN trimStart(Tail(s)) ELSE s
RECURSIVE trimEnd(_)
trimEnd(s) ==
  IF s # <<>> /\ s[Len(s)] = " " THEN trimEnd(SubSeq(s, 1, Len(s) - 1)) ELSE s
trimChars(s) == trimEnd(trimStart(s))

\* Array.prototype.join
RECURSIVE join(_, _)
join(parts, sep) ==
  IF parts = <<>> THEN <<>>
  ELSE IF Len(parts) = 1 THEN parts[1]
  ELSE parts[1] \o sep \o join(Tail(parts), sep)

\* [...new Set(xs)]: first occurrences, in order.
RECURSIVE unique(_)
unique(xs) ==
  IF xs = <<>> THEN <<>>
  ELSE LET init == unique(SubSeq(xs, 1, Len(xs) - 1))
           last == xs[Len(xs)]
       IN IF last \in Range(init) THEN init ELSE Append(init, last)

\* .filter(Boolean) on strings
NonEmpty(xs) == SelectSeq(xs, LAMBDA x : x # <<>>)

\* String(v)
RECURSIVE String(_)
String(v) ==
  CASE v.t = "str" -> v.s
    [] v.t = "num" -> <<ToString(v.n)>>
    [] v.t = "null" -> <<"n", "u", "l", "l">>
    [] v.t = "list" ->
         join([i \in DOMAIN v.items |->
                 IF v.items[i].t = "null" THEN <<>> ELSE String(v.items[i])],
              <<",">>)
    [] OTHER -> <<"[object Object]">>

\* v[k]; an absent member reads as undefined, which ?? treats as null.
Get(v, k) ==
  IF \E i \in DOMAIN v.members : v.members[i].k = k
    THEN v.members[CHOOSE i \in DOMAIN v.members : v.members[i].k = k].v
    ELSE VNull

\* a ?? b ?? ... ?? null
RECURSIVE Coalesce(_)
Coalesce(xs) ==
  IF xs = <<>> THEN VNull
  ELSE IF Head(xs).t # "null" THEN Head(xs)
  ELSE Coalesce(Tail(xs))

Values(v) == [i \in DOMAIN v.members |-> v.members[i].v]

\* normalizeValue returning an object's preferred member untrimmed.
RECURSIVE normalizeValueUntrimmed(_)
normalizeValueUntrimmed(v) ==
  CASE v.t = "null" -> <<>>
    [] v.t = "list" ->
         join(NonEmpty(unique([i \in DOMAIN v.items |->
                                 normalizeValueUntrimmed(v.items[i])])),
              <<",", " ">>)
    [] v.t = "obj" ->
         LET cand == Coalesce(<<Get(v, "email"), Get(v, "name"),
                                Get(v, "text"), Get(v, "value")>>)
         IN IF cand.t # "null" THEN String(cand)
            ELSE join(NonEmpty([i \in DOMAIN v.members |->
                                  normalizeValueUntrimmed(v.members[i].v)]),
                      <<",", " ">>)
    [] OTHER -> trimChars(String(v))

\* normalizeValue (organizations worker)
RECURSIVE normalizeValue(_)
normalizeValue(v) ==
  CASE v.t = "null" -> <<>>
    [] v.t = "list" ->
         join(NonEmpty(unique([i \in DOMAIN v.items |->
                                 normalizeValue(v.items[i])])),
              <<",", " ">>)
    [] v.t = "obj" ->
         LET cand == Coalesce(<<Get(v, "email"), Get(v, "name"),
                                Get(v, "text"), Get(v, "value")>>)
         IN IF cand.t # "null" THEN trimChars(String(cand))
            ELSE join(NonEmpty([i \in DOMAIN v.members |->
                                  normalizeValue(v.members[i].v)]),
                      <<",", " ">>)
    [] OTHER -> trimChars(String(v))

\* pushAny of normalizeTextField: the strings it pushes for v, in order.
RECURSIVE pushAny(_)
RECURSIVE pushEach(_)
pushEach(vs) == IF vs = <<>> THEN <<>> ELSE pushAny(Head(vs)) \o pushEach(Tail(vs))
pushAny(v) ==
  CASE v.t = "null" -> <<>>
    [] v.t = "list" -> pushEach(v.items)
    [] v.t = "obj" ->
         LET cand == Coalesce(<<Get(v, "email"), Get(v, "text"),
                                Get(v, "name"), Get(v, "value")>>)
         IN IF cand.t # "null" THEN NonEmpty(<<trimChars(String(cand))>>)
            ELSE pushEach(Values(v))
    [] OTHER -> NonEmpty(<<trimChars(String(v))>>)

\* normalizeTextField (network-map worker)
normalizeTextField(value) ==
  IF value.t = "null" THEN <<>> ELSE join(unique(pushAny(value)), <<",", " ">>)

\* One application of a normalizer to a field value, and a second one to the
\* string the first returned.
Norm(fn, value, once, twice) ==
  [fn |-> fn, value |-> value, once |-> once, twice |-> twice]
NoNorm == Norm("none", VNull, <<>>, <<>>)

(* ----------------------- overlapping invocations ------------------------ *)

MaxCalls == 3

\* One invocation of the step between two of its awaits: where it is, the
\* checkpoint it read, what it fetched, and its place in the replay of the
\* chunks.  stale: a finalize deleted the checkpoint while it was running.
StepCall(pc, state, features, nextCursor, i, allFeatures, stale) ==
  [pc |-> pc, state |-> state, features |-> features, nextCursor |-> nextCursor,
   i |-> i, allFeatures |-> allFeatures, stale |-> stale]
NoCall == StepCall("idle", FreshState(NoJob), <<>>, NoCursor, 0, <<>>, FALSE)

\* What has happened to the job's checkpoint so far.
\* overlapped: an invocation began while another was running;
\* lost: a checkpoint was put over one with a higher chunkCount;
\* revived: an invocation put a checkpoint that a finalize had deleted
\* while that invocation was running.
Seen(overlapped, lost, revived) ==
  [overlapped |-> overlapped, lost |-> lost, revived |-> revived]
NoSeen == Seen(FALSE, FALSE, FALSE)

(* ----------------------------- worker pools ---------------------------- *)

\* A running withConcurrency(items, limit, fn): items.length, the shared
\* index i, the workers (where each stands and the item it awaits), and per
\* item how often fn was invoked on it and whether that invocation is
\* still to come ("todo"), pending ("run") or settled.
WcPool(n, i, w, invoked, st) == [n |-> n, i |-> i, w |-> w, invoked |-> invoked, st |-> st]
Worker(pc, cur) == [pc |-> pc, cur |-> cur]

\* One worker per item, as Promise.all(items.map(fn)) would run them.
workersOfPerItem(n, limit) == n

\* Math.min(limit, items.length)
workersOf(n, limit) == IF limit < n THEN limit ELSE n

\* The pool as withConcurrency creates it, before any worker has run.
withConcurrency(n, limit) ==
  WcPool(n, 0, [k \in 1..workersOf(n, limit) |-> Worker("loop", 0)],
         [t \in 1..n |-> 0], [t \in 1..n |-> "todo"])

\* A worker that takes the item at i without moving i on.
claimNoAdvance(P, k) ==
  IF P.i < P.n
    THEN WcPool(P.n, P.i, [P.w EXCEPT ![k] = Worker("await", P.i + 1)],
                [P.invoked EXCEPT ![P.i + 1] = @ + 1], [P.st EXCEPT ![P.i + 1] = "run"])
    ELSE WcPool(P.n, P.i, [P.w EXCEPT ![k] = Worker("done", 0)], P.invoked, P.st)

\* One pass of worker k through the head of its loop: while (i < items.length)
\* { const cur = i++; ... await fn(items[cur]) }, up to the await.
claim(P, k) ==
  IF P.i < P.n
    THEN WcPool(P.n, P.i + 1, [P.w EXCEPT ![k] = Worker("await", P.i + 1)],
                [P.invoked EXCEPT ![P.i + 1] = @ + 1], [P.st EXCEPT ![P.i + 1] = "run"])
    ELSE WcPool(P.n, P.i, [P.w EXCEPT ![k] = Worker("done", 0)], P.invoked, P.st)

\* fn(items[t]) has returned or thrown; the try/catch treats both alike.
settle(P, t) == [P EXCEPT !.st[t] = "settled"]

\* The workers that can run: not started yet, or awaiting a settled item.
Ready(P) ==
  {k \in DOMAIN P.w : \/ P.w[k].pc = "loop"
                      \/ P.w[k].pc = "await" /\ P.st[P.w[k].cur] = "settled"}
First(S) == CHOOSE k \in S : \A j \in S : k <= j

\* Promise.all(workers) is resolved.
allDone(P) == \A k \in DOMAIN P.w : P.w[k].pc = "done"
InFlight(P) == Cardinality({t \in DOMAIN P.st : P.st[t] = "run"})

\* The limits prewarmAll and prewarmAttachments pass to withConcurrency.
recordLimit == 10
attachmentLimit == 4

\* One attachment field of one record in prewarm: the urls, their pool, and
\* per url the I/O its callback awaits ("none", "head", "fetch", "put").
Attach(tasks, P, pending) == [tasks |-> tasks, P |-> P, pending |-> pending]
NoAttach == Attach(<<>>, withConcurrency(0, attachmentLimit), <<>>)

\* The callback of prewarmAll on one record: the field it is at ("none"
\* before the first, "end" once returned), that field's prewarm, and the
\* pools of the fields it is through with.
RecordFn(field, at, fin) == [field |-> field, at |-> at, fin |-> fin]
NewFn == RecordFn("none", NoAttach, <<>>)

\* A prewarmAll: the records, their pool and their callbacks.
PrewarmRun(phase, flush, records, P, fn) ==
  [phase |-> phase, flush |-> flush, records |-> records, P |-> P, fn |-> fn]
NoPool == PrewarmRun("idle", FALSE, <<>>, withConcurrency(0, recordLimit), <<>>)

(* ------------------------------- state --------------------------------- *)

VARIABLES
  table,      \* the upstream table: a sequence of pages of records
  bad,        \* ids of the records whose coordinates are unusable
  pageLimit,  \* env.AIRTABLE_PAGE_LIMIT (0: unset)
  bucket,     \* ORG_MAP_BUCKET: key -> stored text
  minted,     \* how many job ids crypto.randomUUID() has produced
  resp,       \* the response of the last step invocation
  loc,        \* the locals of the last step invocation
  io,         \* the I/O calls of the last step invocation, in order
  committed,  \* per job: the features of the chunks checkpointed so far
  cl,         \* the caller that steps a job by hand
  drv,        \* the running handleAutoComplete invocation
  images,     \* NETWORK_IMAGES_BUCKET: key -> cached image
  netmap,     \* NETWORK_MAP_BUCKET: key -> stored text
  bg,         \* the bag of work handed to ctx.waitUntil and not yet run
  nresp,      \* the response of the last network-map request
  nio,        \* the I/O calls of the last network-map request, in order
  bio,        \* the I/O calls of the background work run last, in order
  norm,       \* the property value normalized last, and the results
  calls,      \* the step invocations of one job that may overlap
  seen,       \* what their writes have done to the job's checkpoint
  pool,       \* the running prewarmAll: its worker pools and pending I/O
  op          \* the request or step taken last

netVars == <<images, netmap, bg, nresp, nio, bio>>
auxVars == <<norm, calls, seen, pool>>
vars == <<table, bad, pageLimit, bucket, minted, resp, loc, io, committed, cl, drv,
          images, netmap, bg, nresp, nio, bio, norm, calls, seen, pool, op>>

\* A request: its route, Authorization header, the path segments after the
\* route prefix, and what fails while it is served.
Op(kind, hdr, parts, fault) == [kind |-> kind, hdr |-> hdr, parts |-> parts, fault |-> fault]
NoOp == Op("none", NoHeader, <<>>, "none")
ClientOp == Op("client", NoHeader, <<>>, "none")

NResp(status, source, body, features) ==
  [status |-> status, source |-> source, body |-> body, features |-> features]
NoBody == [bytes |-> "", contentType |-> ""]
NoNResp == NResp(0, "none", NoBody, 0)

\* orphans: the chunks written by steps that then failed to write their
\* checkpoint and not written again since; rewrote: one of them has been.
Idle == [phase |-> "idle", jobId |-> NoJob, cursor |-> NoCursor, steps |-> 0, sum |-> 0,
         orphans |-> {}, rewrote |-> FALSE]

\* handleAutoComplete's locals (cursor, totalFeatures, iterations), where it
\* stands, its answer, and the records its internal calls have read.
Driver(pc, cursor, totalFeatures, iterations, result, read) ==
  [pc |-> pc, cursor |-> cursor, totalFeatures |-> totalFeatures,
   iterations |-> iterations, result |-> result, read |-> read]
NoDriver == Driver("idle", NoCursor, 0, 0, NoResp, <<>>)

\* The state after deployment, for a table with at most maxBad bad records.
InitWith(maxBad) ==
  /\ \E P \in 1..MaxUpstreamPages, lastLen \in 0..PageSize,
        b \in SUBSET (1..(MaxUpstreamPages * PageSize)) :
       /\ Cardinality(b) <= maxBad
       /\ b \subseteq {r.id : r \in Range(Flatten(MakeTable(P, lastLen, {})))}
       /\ table = MakeTable(P, lastLen, b)
       /\ bad = b
  /\ pageLimit \in PageLimits
  /\ bucket = EmptyBucket
  /\ minted = 0
  /\ resp = NoResp
  /\ loc = NoLocals
  /\ io = <<>>
  /\ committed = [j \in JobIds |-> <<>>]
  /\ cl = Idle
  /\ drv = NoDriver
  /\ images = EmptyBucket
  /\ netmap = EmptyBucket
  /\ bg = EmptyBag
  /\ nresp = NoNResp
  /\ nio = <<>>
  /\ bio = <<>>
  /\ norm = NoNorm
  /\ calls = [k \in 1..MaxCalls |-> NoCall]
  /\ seen = NoSeen
  /\ pool = NoPool
  /\ op = NoOp

Init == InitWith(MaxBad)
\* The same with no bad record in the table.
InitPlain == InitWith(0)

\* The regenerate route of the organizations worker for a body that asks for
\* one step: the token check, then processSingleChunk.
regenerate(b, tbl, h, jobId, payloadCursor, limit, fault) ==
  IF ~authorized(h) THEN Out(b, Unauthorized, NoLocals, <<>>)
  ELSE processSingleChunk(b, tbl, jobId, payloadCursor, clampPages(limit), fault)

\* One POST /orgs/admin/regenerate with body {jobId?, cursor?,
\* waitForCompletion: false}, served to the end.  A body without jobId gets
\* a freshly minted one.
JobOf(bodyJob) == IF bodyJob = NoJob THEN <<"uuid", minted + 1>> ELSE bodyJob

ServeOut(h, bodyJob, payloadCursor, fault) ==
  regenerate(bucket, table, h, JobOf(bodyJob), payloadCursor, pageLimit, fault)

ServeWithin(cap, h, bodyJob, payloadCursor, fault, parts) ==
  LET mint == bodyJob = NoJob /\ authorized(h)
      jobId == JobOf(bodyJob)
      out == ServeOut(h, bodyJob, payloadCursor, fault)
  IN
  /\ mint => minted < cap
  /\ minted' = IF mint THEN minted + 1 ELSE minted
  /\ bucket' = out.bucket
  /\ resp' = out.resp
  /\ loc' = out.loc
  /\ io' = out.io
  /\ committed' =
       LET before == IF Has(bucket, StateKey(jobId)) THEN committed[jobId] ELSE <<>> IN
       IF out.resp.kind = "in_progress"
         THEN [committed EXCEPT ![jobId] = before \o out.loc.features]
       ELSE IF out.resp.kind = "completed"
         THEN [committed EXCEPT ![jobId] = before]
       ELSE committed
  /\ op' = Op("orgRegenerate", h, parts, "none")
  /\ UNCHANGED <<table, bad, pageLimit>>
  /\ UNCHANGED netVars
  /\ UNCHANGED auxVars

ServeAs(h, bodyJob, payloadCursor, fault, parts) ==
  ServeWithin(MaxMint, h, bodyJob, payloadCursor, fault, parts)
Serve(h, bodyJob, payloadCursor, fault) == ServeAs(h, bodyJob, payloadCursor, fault, <<>>)

(* ------------------------- stepping by hand ---------------------------- *)

\* What the properties read of the stores.
DocFeatures == Parse(bucket[DocKey]).features
Ids(features) == [i \in DOMAIN features |-> features[i].id]
UpstreamPages == Len(table)
MaxPagesPerStep == clampPages(pageLimit)
\* ceil(a / b)
CeilDiv(a, b) == (a + b - 1) \div b
\* The ids of the usable records of pages from..to, in upstream order.
GoodIds(from, to) ==
  SelectSeq(Ids(Flatten(SubSeq(table, from, IF to > Len(table) THEN Len(table) ELSE to))),
            LAMBDA id : id \notin bad)

GoodHeader == Header("Bearer ", RegenToken)

\* The chunk a failed step wrote before it stopped at the put of its
\* checkpoint, given the step's I/O.
Orphaned(log) ==
  IF /\ Len(log) >= 2
     /\ log[Len(log)].op = "put" /\ log[Len(log)].key.kind = "state"
     /\ log[Len(log) - 1].op = "put" /\ log[Len(log) - 1].key.kind = "chunk"
    THEN {log[Len(log) - 1].key} ELSE {}

\* The caller sends one step and reads the answer.  The first step of a run
\* names a job id of its own or lets the worker mint one; every later step
\* passes the returned jobId, with or without the returned cursor.  A step
\* answered with an error is sent again.  The calls in `faults` may fail.
Call(faults) ==
  /\ cl.phase \in {"idle", "running"}
  /\ \E own \in ClientJobIds \cup {NoJob}, sendCursor \in BOOLEAN, f \in faults :
       /\ Serve(GoodHeader,
                IF cl.phase = "idle" THEN own ELSE cl.jobId,
                IF cl.phase = "running" /\ sendCursor THEN cl.cursor ELSE NoCursor,
                f)
       /\ cl' = IF resp'.kind = "error"
                  THEN [cl EXCEPT !.orphans = @ \cup Orphaned(io')]
                ELSE [phase |-> IF resp'.kind = "completed" THEN "done" ELSE "running",
                      jobId |-> resp'.jobId,
                      cursor |-> resp'.nextCursor,
                      steps |-> cl.steps + 1,
                      sum |-> cl.sum + Len(loc'.features),
                      orphans |-> {k \in cl.orphans : IoPut(k) \notin Range(io')},
                      rewrote |-> cl.rewrote \/ \E k \in cl.orphans : IoPut(k) \in Range(io')]
  /\ UNCHANGED drv

ClientStep == Call({NoFault})

\* The caller starts over with a new run.
ClientNewRun ==
  /\ cl.phase = "done"
  /\ cl' = Idle
  /\ op' = ClientOp
  /\ UNCHANGED <<table, bad, pageLimit, bucket, minted, resp, loc, io, committed, drv>>
  /\ UNCHANGED netVars
  /\ UNCHANGED auxVars

Next == ClientStep \/ ClientNewRun

Spec == Init /\ [][Next]_vars

(* ------------------- stepping by hand, calls may fail ------------------ *)

FetchFaults == {Fault("fetch", n, {}, FALSE) : n \in 1..2}
WriteFaults == {Fault(at, 0, {}, FALSE) : at \in {"stateGet", "chunkPut", "statePut"}}
FinalizeFaults ==
  {Fault("chunkGet", n, {}, FALSE) : n \in 1..MaxUpstreamPages} \cup {Fault("docPut", 0, {}, FALSE)}
DeleteFaults ==
  {Fault("none", 0, D, s) : D \in {{}} \cup {{n} : n \in 1..MaxUpstreamPages},
                            s \in BOOLEAN} \ {NoFault}

\* Only the deletes of the finalize step may be rejected.
ClientStepDeleteFaulty == Call({NoFault} \cup DeleteFaults)
NextDelete == ClientStepDeleteFaulty
SpecDelete == InitPlain /\ [][NextDelete]_vars

\* Only the finalize step's chunk reads and its put of the document may fail.
ClientStepFinalizeFaulty == Call({NoFault} \cup FinalizeFaults)
NextFinalize == ClientStepFinalizeFaulty \/ ClientNewRun
SpecFinalize == InitPlain /\ [][NextFinalize]_vars

(* ------------------------ any cursor in the body ----------------------- *)

\* Cursors a body may carry: none, "", a token of the table, a stale token.
PayloadCursors == {NoCursor, EmptyCursor} \cup (2..(MaxUpstreamPages + 1))

\* One step request of a caller that overrides the cursor as it likes; a job
\* checkpoints at most MaxChunks chunks.
StepRequest ==
  /\ \E j \in ClientJobIds, c \in PayloadCursors, f \in {NoFault} \cup FetchFaults :
       /\ LET out == ServeOut(GoodHeader, j, c, f) IN
            out.resp.kind = "in_progress" =>
              Parse(out.bucket[StateKey(JobOf(j))]).chunkCount <= MaxChunks
       /\ Serve(GoodHeader, j, c, f)
  /\ UNCHANGED <<cl, drv>>

NextCursor == StepRequest
SpecCursor == InitPlain /\ [][NextCursor]_vars

(* --------------------------- self-chaining ----------------------------- *)

maxIterations == 100

\* POST /orgs/admin/regenerate with waitForCompletion not false from outside:
\* the token check, then handleAutoComplete starts.
AutoStart ==
  /\ drv.pc = "idle"
  /\ \E h \in {GoodHeader, NoHeader} :
       /\ drv' = IF authorized(h) THEN Driver("running", NoCursor, 0, 0, NoResp, <<>>)
                 ELSE Driver("done", NoCursor, 0, 0, Unauthorized, <<>>)
       /\ resp' = IF authorized(h) THEN NoResp ELSE Unauthorized
       /\ op' = Op("orgRegenerate", h, <<>>, "none")
  /\ loc' = NoLocals
  /\ io' = <<>>
  /\ UNCHANGED <<table, bad, pageLimit, bucket, minted, committed, cl>>
  /\ UNCHANGED netVars
  /\ UNCHANGED auxVars

\* handleAutoComplete going on after a completed result as after in_progress.
afterInternalCallPastCompleted(d, r, records) ==
  LET n == d.iterations + 1
      read == d.read \o records
  IN
  IF r.status # 200
    THEN Driver("done", d.cursor, d.totalFeatures, n, ErrorResp(NoJob), d.read)
  ELSE IF r.kind \in {"in_progress", "completed"}
    THEN Driver("running", r.nextCursor, r.totalFeatures, n, NoResp, read)
  ELSE Driver("done", d.cursor, d.totalFeatures, n, ErrorResp(NoJob), read)

\* What handleAutoComplete does with the answer r of its internal call.
afterInternalCall(d, r, records) ==
  LET n == d.iterations + 1
      read == d.read \o records
  IN
  IF r.status # 200
    THEN Driver("done", d.cursor, d.totalFeatures, n, ErrorResp(NoJob), d.read)
  ELSE IF r.kind = "completed"
    THEN Driver("done", d.cursor, d.totalFeatures, n, r, read)
  ELSE IF r.kind = "in_progress"
    THEN IF r.nextCursor = NoCursor
           THEN Driver("done", r.nextCursor, r.totalFeatures, n, ErrorResp(NoJob), read)
           ELSE Driver("running", r.nextCursor, r.totalFeatures, n, NoResp, read)
  ELSE Driver("done", d.cursor, d.totalFeatures, n, ErrorResp(NoJob), read)

\* One pass of handleAutoComplete's loop: the internal call carries the
\* driver's cursor and no jobId; its upstream requests may fail.  The worker
\* mints at most cap job ids.
AutoIterWithin(cap) ==
  /\ drv.pc = "running"
  /\ IF drv.iterations < maxIterations
       THEN \E f \in {NoFault} \cup FetchFaults :
              /\ ServeWithin(cap, GoodHeader, NoJob, drv.cursor, f, <<>>)
              /\ drv' = afterInternalCall(drv, resp', loc'.fetched.records)
       ELSE /\ drv' = [drv EXCEPT !.pc = "done", !.result = ErrorResp(NoJob)]
            /\ op' = ClientOp
            /\ UNCHANGED <<table, bad, pageLimit, bucket, minted, resp, loc, io, committed>>
            /\ UNCHANGED netVars
            /\ UNCHANGED auxVars
  /\ UNCHANGED cl

AutoIter == AutoIterWithin(MaxMint)

\* The driver has answered; the next outside request may come.
AutoDone ==
  /\ drv.pc = "done"
  /\ drv' = NoDriver
  /\ op' = ClientOp
  /\ UNCHANGED <<table, bad, pageLimit, bucket, minted, resp, loc, io, committed, cl>>
  /\ UNCHANGED netVars
  /\ UNCHANGED auxVars

NextAuto == AutoStart \/ AutoIter \/ AutoDone
SpecAuto == Init /\ [][NextAuto]_vars

(* ------------------------- network-map worker ------------------------- *)

Lower == {"a", "b", "c", "d", "e", "f", "g", "h", "i", "j", "k", "l", "m",
          "n", "o", "p", "q", "r", "s", "t", "u", "v", "w", "x", "y", "z"}
Upper == {"A", "B", "C", "D", "E", "F", "G", "H", "I", "J", "K", "L", "M",
          "N", "O", "P", "Q", "R", "S", "T", "U", "V", "W", "X", "Y", "Z"}
DigitChars == {"0", "1", "2", "3", "4", "5", "6", "7", "8", "9"}

\* A path segment is a sequence of characters; parts[0] of a path without
\* segments is undefined.
Undefined == <<>>
MkId(prefix, c, n) == prefix \o [i \in 1..n |-> c]
RecA == MkId(<<"r", "e", "c">>, "A", 14)
RecB == MkId(<<"r", "e", "c">>, "b", 14)
\* Well formed, but no record of the table.
RecZ == MkId(<<"r", "e", "c">>, "9", 14)

\* /^rec[a-zA-Z0-9]{14}$/.test(id), for a string id
isValidRecordId(id) ==
  /\ id # Undefined
  /\ Len(id) = 17
  /\ SubSeq(id, 1, 3) = <<"r", "e", "c">>
  /\ \A i \in 4..17 : id[i] \in Lower \cup Upper \cup DigitChars

\* isValidIndex accepting 6 as well.
isValidIndexUpTo6(index) == index.t = "num" /\ index.n >= 0 /\ index.n <= 6

\* Number.isInteger(index) && index >= 0 && index <= 5
isValidIndex(index) == index.t = "num" /\ index.n >= 0 /\ index.n <= 5

\* The segments after the prefix: the first is the record id, the second
\* goes through Number(); a missing one gives undefined, NaN.
parseAttachmentPath(parts) ==
  [recordId |-> IF Len(parts) >= 1 THEN parts[1] ELSE Undefined,
   index |-> IF Len(parts) >= 2 THEN NumberOfString(parts[2]) ELSE NaN]

\* `images/${recordId}/${index}/original`
r2Key(recordId, index) == [id |-> recordId, index |-> index]

\* The attachment fields of the networks table, as lists of attachment urls
\* ("": an attachment without url).
\* A raw "Polygon" cell: absent, a string (that is JSON text or not) or an
\* object; type is the "type" member of the value once parsed ("" if none).
NoGeometry == [t |-> "null", parses |-> FALSE, type |-> ""]
GeoText(parses, type) == [t |-> "str", parses |-> parses, type |-> type]
GeoObject(type) == [t |-> "obj", parses |-> TRUE, type |-> type]

\* parseGeometry: null for an empty cell, for text JSON.parse rejects and for
\* a value without a type; the parsed value otherwise.
parseGeometry(raw) ==
  IF raw.t = "null" THEN NoGeometry
  ELSE IF raw.t = "str" /\ ~raw.parses THEN NoGeometry
  ELSE IF raw.type = "" THEN NoGeometry
  ELSE GeoObject(raw.type)

RecC == MkId(<<"r", "e", "c">>, "C", 14)
RecD == MkId(<<"r", "e", "c">>, "d", 14)
RecE == MkId(<<"r", "e", "c">>, "E", 14)

NetTable ==
  <<[id |-> RecB, Polygon |-> GeoText(FALSE, ""), Photo |-> <<>>, Image |-> <<>>],
    [id |-> RecA, Polygon |-> GeoText(TRUE, "Polygon"),
     Photo |-> <<"pA0", "", "pA0">>, Image |-> <<"iA0">>],
    [id |-> RecC, Polygon |-> NoGeometry, Photo |-> <<>>, Image |-> <<>>],
    [id |-> RecD, Polygon |-> GeoText(TRUE, ""), Photo |-> <<>>, Image |-> <<>>],
    [id |-> RecE, Polygon |-> GeoObject("MultiPolygon"), Photo |-> <<>>, Image |-> <<>>]>>

Field(rec, fieldName) == IF fieldName = "Photo" THEN rec.Photo ELSE rec.Image

\* Urls in order of first appearance, each once.
RECURSIVE collectInto(_, _)
collectInto(value, urls) ==
  IF value = <<>> THEN urls
  ELSE collectInto(Tail(value),
                   IF Head(value) = "" \/ Head(value) \in Range(urls) THEN urls
                   ELSE Append(urls, Head(value)))
collectPhotoUrls(value) == collectInto(value, <<>>)

\* The image an attachment url serves.
Bytes(url) == [bytes |-> url, contentType |-> "image/jpeg"]

\* One I/O call of a network-map handler.
NIo(o, id, index, url) == [op |-> o, id |-> id, index |-> index, url |-> url]
NGet(key) == NIo("get", key.id, key.index, "")
NRecord(id) == NIo("record", id, 0, "")
NFetch(url) == NIo("fetch", Undefined, 0, url)
NHead(key) == NIo("head", key.id, key.index, "")
NPut(key) == NIo("put", key.id, key.index, "")
NList == NIo("list", Undefined, 0, "")
NPutDoc == NIo("putDoc", Undefined, 0, "")

\* Work handed to ctx.waitUntil: a cache put, or one attachment of a prewarm.
Task(kind, id, index, url, flush) ==
  [kind |-> kind, id |-> id, index |-> index, url |-> url, flush |-> flush]

NOut(r, log, tasks) == [resp |-> r, io |-> log, tasks |-> tasks]

\* GET <base>/<recordId>: the record, or a refusal.
fetchRecordById(recordId, fail) ==
  LET found == {i \in DOMAIN NetTable : NetTable[i].id = recordId} IN
  IF fail \/ found = {} THEN [ok |-> FALSE, rec |-> NetTable[1]]
  ELSE [ok |-> TRUE, rec |-> NetTable[CHOOSE i \in found : TRUE]]

\* handleAttachmentProxy that never hands a put to the background.
handleAttachmentProxyNoPut(io0, recordId, index, fieldName, fault) ==
  LET got == fetchRecordById(recordId, fault = "record")
      allUrls == collectPhotoUrls(Field(got.rec, fieldName))
      freshUrl == allUrls[index + 1]
  IN
  IF ~got.ok
    THEN NOut(NResp(500, "error", NoBody, 0), Append(io0, NRecord(recordId)), {})
  ELSE IF index + 1 > Len(allUrls)
    THEN NOut(NResp(404, "error", NoBody, 0), Append(io0, NRecord(recordId)), {})
  ELSE IF fault = "bytes"
    THEN NOut(NResp(502, "error", NoBody, 0),
              io0 \o <<NRecord(recordId), NFetch(freshUrl)>>, {})
  ELSE NOut(NResp(200, "origin", Bytes(freshUrl), 0),
            io0 \o <<NRecord(recordId), NFetch(freshUrl)>>, {})

\* handleAttachmentProxy handing the put over before it looks at the status
\* of the bytes fetch.
handleAttachmentProxyPutFirst(io0, recordId, index, fieldName, fault) ==
  LET got == fetchRecordById(recordId, fault = "record")
      allUrls == collectPhotoUrls(Field(got.rec, fieldName))
      freshUrl == allUrls[index + 1]
  IN
  IF ~got.ok
    THEN NOut(NResp(500, "error", NoBody, 0), Append(io0, NRecord(recordId)), {})
  ELSE IF index + 1 > Len(allUrls)
    THEN NOut(NResp(404, "error", NoBody, 0), Append(io0, NRecord(recordId)), {})
  ELSE IF fault = "bytes"
    THEN NOut(NResp(502, "error", NoBody, 0),
              io0 \o <<NRecord(recordId), NFetch(freshUrl)>>,
              {Task("put", recordId, index, freshUrl, TRUE)})
  ELSE NOut(NResp(200, "origin", Bytes(freshUrl), 0),
            io0 \o <<NRecord(recordId), NFetch(freshUrl)>>,
            {Task("put", recordId, index, freshUrl, TRUE)})

\* The cache missed: a fresh record, the bytes, the put in the background.
handleAttachmentProxy(io0, recordId, index, fieldName, fault) ==
  LET got == fetchRecordById(recordId, fault = "record")
      allUrls == collectPhotoUrls(Field(got.rec, fieldName))
      freshUrl == allUrls[index + 1]
  IN
  IF ~got.ok
    THEN NOut(NResp(500, "error", NoBody, 0), Append(io0, NRecord(recordId)), {})
  ELSE IF index + 1 > Len(allUrls)
    THEN NOut(NResp(404, "error", NoBody, 0), Append(io0, NRecord(recordId)), {})
  ELSE IF fault = "bytes"
    THEN NOut(NResp(502, "error", NoBody, 0),
              io0 \o <<NRecord(recordId), NFetch(freshUrl)>>, {})
  ELSE NOut(NResp(200, "origin", Bytes(freshUrl), 0),
            io0 \o <<NRecord(recordId), NFetch(freshUrl)>>,
            {Task("put", recordId, index, freshUrl, TRUE)})

\* GET /networks/img/... (Photo) and GET /networks/image/... (Image).
imageRoute(cache, fieldName, parts, fault) ==
  LET p == parseAttachmentPath(parts)
      key == r2Key(p.recordId, p.index.n)
  IN
  IF ~isValidRecordId(p.recordId) \/ ~isValidIndex(p.index)
    THEN NOut(NResp(400, "error", NoBody, 0), <<>>, {})
  ELSE IF Has(cache, key)
    THEN NOut(NResp(200, "cache", cache[key], 0), <<NGet(key)>>, {})
  ELSE handleAttachmentProxy(<<NGet(key)>>, p.recordId, p.index.n, fieldName, fault)

IdTokens ==
  {RecA, RecB, RecZ, MkId(<<"r", "e", "c">>, "A", 13), MkId(<<"r", "e", "c">>, "A", 15),
   MkId(<<"r", "e", "c">>, "-", 14), MkId(<<"R", "E", "C">>, "A", 14)}
IndexTexts == {"0", "1", "5", "6", "-1", "1.5", "1e0", "abc"}
Paths ==
  {<<>>, <<RecA>>, <<RecA, "0", "x">>}
    \cup {<<id, "0">> : id \in IdTokens} \cup {<<RecA, x>> : x \in IndexTexts}

ImageRequest ==
  \E route \in {"img", "image"}, parts \in Paths, fault \in {"none", "record", "bytes"} :
    LET out == imageRoute(images, IF route = "img" THEN "Photo" ELSE "Image", parts, fault)
    IN
    /\ BagCardinality(bg (+) SetToBag(out.tasks)) <= MaxPending
    /\ nresp' = out.resp
    /\ nio' = out.io
    /\ bg' = bg (+) SetToBag(out.tasks)
    /\ op' = Op(route, NoHeader, parts, fault)
    /\ UNCHANGED <<images, netmap, bio>>
    /\ UNCHANGED <<table, bad, pageLimit, bucket, minted, resp, loc, io, committed, cl, drv>>
    /\ UNCHANGED auxVars

\* A cache put handed to ctx.waitUntil runs; the store may reject it.
BgCacheWrite ==
  \E w \in BagToSet(bg), ok \in BOOLEAN :
    /\ w.kind = "put"
    /\ images' = IF ok THEN Put(images, r2Key(w.id, w.index), Bytes(w.url)) ELSE images
    /\ bg' = bg (-) SetToBag({w})
    /\ bio' = <<NPut(r2Key(w.id, w.index))>>
    /\ op' = Op("bgPut", NoHeader, <<>>, IF ok THEN "none" ELSE "put")
    /\ UNCHANGED <<netmap, nresp, nio>>
    /\ UNCHANGED <<table, bad, pageLimit, bucket, minted, resp, loc, io, committed, cl, drv>>
    /\ UNCHANGED auxVars

maxCount == 6
Min(a, b) == IF a < b THEN a ELSE b

\* The items prewarmAttachments makes of one attachment field of a record.
prewarmAttachments(recordId, urlStrings, flush) ==
  {Task("prewarm", recordId, idx - 1, urlStrings[idx], flush) :
     idx \in 1..Min(maxCount, Len(urlStrings))}

\* The items of a whole prewarm.
prewarmAll(records, flush) ==
  UNION {prewarmAttachments(r.id, collectPhotoUrls(r.Photo), flush)
           \cup prewarmAttachments(r.id, collectPhotoUrls(r.Image), flush) :
         r \in Range(records)}

NetDocKey == [id |-> <<"latest.geojson">>, index |-> 0]

RECURSIVE netFeatures(_)
netFeatures(records) ==
  IF records = <<>> THEN <<>>
  ELSE LET r == Head(records) IN
       (IF parseGeometry(r.Polygon) # NoGeometry
          THEN <<[id |-> r.id,
                  photo_count |-> Min(maxCount, Len(collectPhotoUrls(r.Photo))),
                  image_count |-> Min(maxCount, Len(collectPhotoUrls(r.Image)))]>>
          ELSE <<>>) \o netFeatures(Tail(records))

\* POST /networks/admin/regenerate (flush) and .../regenerate-noflush.
handleRegenerate(doc, flush, fault) ==
  IF fault = "list"
    THEN [netmap |-> doc, out |-> NOut(NResp(500, "error", NoBody, 0), <<NList>>, {})]
  ELSE
    LET tasks == prewarmAll(NetTable, flush)
        features == netFeatures(NetTable)
    IN
    IF fault = "putDoc"
      THEN [netmap |-> doc,
            out |-> NOut(NResp(500, "error", NoBody, 0), <<NList, NPutDoc>>, tasks)]
      ELSE [netmap |-> Put(doc, NetDocKey, Stringify(FeatureCollection(features))),
            out |-> NOut(NResp(200, "regenerated", NoBody, Len(features)),
                         <<NList, NPutDoc>>, tasks)]

netRegenerateRoute(doc, h, flush, fault) ==
  IF ~authorized(h)
    THEN [netmap |-> doc, out |-> NOut(NResp(401, "error", NoBody, 0), <<>>, {})]
    ELSE handleRegenerate(doc, flush, fault)

NetRegenerateWith(headers, faults) ==
  \E h \in headers, flush \in BOOLEAN, fault \in faults :
    LET r == netRegenerateRoute(netmap, h, flush, fault) IN
    /\ BagCardinality(bg (+) SetToBag(r.out.tasks)) <= MaxPending
    /\ netmap' = r.netmap
    /\ nresp' = r.out.resp
    /\ nio' = r.out.io
    /\ bg' = bg (+) SetToBag(r.out.tasks)
    /\ op' = Op(IF flush THEN "regenerate" ELSE "regenerate-noflush", h, <<>>, fault)
    /\ UNCHANGED <<images, bio>>
    /\ UNCHANGED <<table, bad, pageLimit, bucket, minted, resp, loc, io, committed, cl, drv>>
    /\ UNCHANGED auxVars

\* What one run of an item leaves: the cache, the work pending, its I/O.
BgOut(cache, pending, log) == [images |-> cache, bg |-> pending, io |-> log]

\* prewarmItem that fetches and puts without asking for the key first.
prewarmItemNoHead(cache, pending, w, fault) ==
  LET key == r2Key(w.id, w.index)
      rest == pending (-) SetToBag({w})
  IN
  IF fault = "fetch" THEN BgOut(cache, rest, <<NFetch(w.url)>>)
  ELSE IF fault = "put" THEN BgOut(cache, rest, <<NFetch(w.url), NPut(key)>>)
  ELSE BgOut(Put(cache, key, Bytes(w.url)), rest, <<NFetch(w.url), NPut(key)>>)

\* prewarmItem whose failure ends the batch.
prewarmItemAbortsBatch(cache, pending, w, fault) ==
  LET key == r2Key(w.id, w.index)
      rest == pending (-) SetToBag({w})
      head == IF w.flush THEN <<>> ELSE <<NHead(key)>>
  IN
  IF ~w.flush /\ Has(cache, key) THEN BgOut(cache, rest, head)
  ELSE IF fault = "fetch" THEN BgOut(cache, EmptyBag, Append(head, NFetch(w.url)))
  ELSE IF fault = "put"
    THEN BgOut(cache, EmptyBag, head \o <<NFetch(w.url), NPut(key)>>)
  ELSE BgOut(Put(cache, key, Bytes(w.url)), rest, head \o <<NFetch(w.url), NPut(key)>>)

\* The callback prewarmAttachments gives withConcurrency, on one item: the
\* head in no-flush mode, the fetch, the put; withConcurrency catches what
\* it throws and goes on with the other items.
prewarmItem(cache, pending, w, fault) ==
  LET key == r2Key(w.id, w.index)
      rest == pending (-) SetToBag({w})
      head == IF w.flush THEN <<>> ELSE <<NHead(key)>>
  IN
  IF ~w.flush /\ Has(cache, key) THEN BgOut(cache, rest, head)
  ELSE IF fault = "fetch" THEN BgOut(cache, rest, Append(head, NFetch(w.url)))
  ELSE IF fault = "put" THEN BgOut(cache, rest, head \o <<NFetch(w.url), NPut(key)>>)
  ELSE BgOut(Put(cache, key, Bytes(w.url)), rest, head \o <<NFetch(w.url), NPut(key)>>)

\* One attachment of a prewarm runs.
PrewarmItemWith(faults) ==
  \E w \in BagToSet(bg), fault \in faults :
    LET out == prewarmItem(images, bg, w, fault) IN
    /\ w.kind = "prewarm"
    /\ images' = out.images
    /\ bg' = out.bg
    /\ bio' = out.io
    /\ op' = Op("bgPrewarm", NoHeader, <<>>, fault)
    /\ UNCHANGED <<netmap, nresp, nio>>
    /\ UNCHANGED <<table, bad, pageLimit, bucket, minted, resp, loc, io, committed, cl, drv>>
    /\ UNCHANGED auxVars

\* The state after deployment over one table of two pages.
InitOne ==
  /\ InitPlain
  /\ Len(table) = 2
  /\ Len(table[2]) = 1
  /\ pageLimit = 1

\* The image proxy and its background writes.
NextProxy == ImageRequest \/ BgCacheWrite
SpecProxy == InitOne /\ [][NextProxy]_vars

\* Regenerate requests to both workers under any Authorization header.
OrgRequest ==
  /\ \E h \in Headers, j \in ClientJobIds : Serve(h, j, NoCursor, NoFault)
  /\ UNCHANGED <<cl, drv>>

NetRegenerateAnyHeader == NetRegenerateWith(Headers, {"none"})
PrewarmItemDone == PrewarmItemWith({"none"})
NextAuth == OrgRequest \/ NetRegenerateAnyHeader \/ PrewarmItemDone
SpecAuth == InitOne /\ [][NextAuth]_vars

\* Regenerate by the holder of the secret and the prewarm it starts, where
\* the listing, the put of the document and each item may fail.
NetRegenerate == NetRegenerateWith({GoodHeader}, {"none", "list", "putDoc"})
PrewarmItem == PrewarmItemWith({"none", "fetch", "put"})
NextPrewarm == NetRegenerate \/ PrewarmItem
SpecPrewarm == InitOne /\ [][NextPrewarm]_vars

(* ------------------------------ properties ----------------------------- *)

\* The one step whose maxPages is large enough to read every upstream page.
OneShot == processSingleChunk(EmptyBucket, table, <<"client", 0>>, NoCursor,
                              UpstreamPages, NoFault)

\* C1: a run stepped to completion with the returned jobId publishes the
\* document that one unbounded step publishes and reports the same count.
C1_SteppedEqualsOneShot ==
  cl.phase = "done" =>
    /\ Has(bucket, DocKey)
    /\ bucket[DocKey] = OneShot.bucket[DocKey]
    /\ resp.features = OneShot.resp.features

\* C1 witness: a run of at least two steps over chunks has completed.
C1_Witness ==
  /\ cl.phase = "done"
  /\ cl.steps >= 2
  /\ Len(loc.state.chunkKeys) >= 1
  /\ Len(DocFeatures) > Len(loc.features)

\* C3: the published features are in the order the upstream pages returned
\* their records (each usable record once, page by page, in page order).
C3_UpstreamOrder ==
  cl.phase = "done" =>
    /\ Has(bucket, DocKey)
    /\ Ids(DocFeatures) = GoodIds(1, UpstreamPages)

\* C3 witness: a completed run whose document holds features of two chunks
\* and of the final step.
C3_Witness ==
  /\ cl.phase = "done"
  /\ Len(loc.state.chunkKeys) >= 2
  /\ Len(loc.features) >= 1
  /\ Len(DocFeatures) >= 3 + Len(loc.features)

\* C5: with P pages and maxPages N the run takes ceil(P/N) steps; every step
\* before the last answers in_progress with its processed count and the
\* running total, the last answers completed with the sum as features.
C5_StepCount ==
  /\ cl.phase = "running" =>
        /\ resp.kind = "in_progress"
        /\ cl.steps < CeilDiv(UpstreamPages, MaxPagesPerStep)
        /\ resp.processed =
             Len(GoodIds((cl.steps - 1) * MaxPagesPerStep + 1, cl.steps * MaxPagesPerStep))
        /\ resp.totalFeatures = cl.sum
        /\ resp.totalFeatures = Len(GoodIds(1, cl.steps * MaxPagesPerStep))
  /\ cl.phase = "done" =>
        /\ resp.kind = "completed"
        /\ cl.steps = CeilDiv(UpstreamPages, MaxPagesPerStep)
        /\ resp.features = cl.sum

\* C5 witness: Scenario A, three steps of one page each, a record dropped.
C5_Witness ==
  /\ cl.phase = "done"
  /\ cl.steps = 3
  /\ MaxPagesPerStep = 1
  /\ bad # {}
  /\ resp.features >= 3

\* C2: when handleAutoComplete answers completed, the published document
\* holds the features of every page its run read and the reported count is
\* the document's.
C2_AutoCompleteWholeDocument ==
  (drv.pc = "done" /\ drv.result.kind = "completed") =>
    /\ Has(bucket, DocKey)
    /\ Range(recordsToFeatures(drv.read)) \subseteq Range(DocFeatures)
    /\ drv.result.features = Len(DocFeatures)

\* The last upstream page a fetch read.
LastPageRead ==
  LET o == loc.fetched.reqs[Len(loc.fetched.reqs)] IN IF o = NoCursor THEN 1 ELSE o

\* C4: one fetch issues at most maxPages page requests and returns a cursor
\* exactly when the upstream has pages after the last one read.
C4_PaginationBound ==
  loc.fetched.reqs # <<>> =>
    /\ loc.maxPages >= 1
    /\ Len(loc.fetched.reqs) <= loc.maxPages
    /\ loc.fetched.pagesUsed = Len(loc.fetched.reqs)
    /\ ~loc.fetched.threw =>
         (loc.fetched.nextCursor # NoCursor <=> LastPageRead < UpstreamPages)

\* C4 witness: a fetch stopped at a page bound of two with pages left
\* upstream.
C4_Witness ==
  /\ ~loc.fetched.threw
  /\ loc.maxPages = 2
  /\ Len(loc.fetched.reqs) = loc.maxPages
  /\ loc.fetched.nextCursor # NoCursor

\* C6 as claimed: after a completed step the document is stored and neither
\* a listed chunk nor the job's checkpoint is left.
C6_NothingLeft ==
  resp.kind = "completed" =>
    /\ Has(bucket, DocKey)
    /\ \A key \in Range(loc.state.chunkKeys) \cup {StateKey(resp.jobId)} :
         ~Has(bucket, key)

\* C6 amended: after a completed step the document is stored, and a listed
\* chunk or the checkpoint is left only where its delete was rejected.
C6_LeftOnlyWhereDeleteRejected ==
  resp.kind = "completed" =>
    /\ Has(bucket, DocKey)
    /\ Len(DocFeatures) >= Len(loc.features)
    /\ \A key \in Range(loc.state.chunkKeys) \cup {StateKey(resp.jobId)} :
         Has(bucket, key) => key \in loc.kept

\* C6 witness: a completed step over two chunks, one deleted, one kept.
C6_Witness ==
  /\ resp.kind = "completed"
  /\ Len(loc.state.chunkKeys) = 2
  /\ Has(bucket, loc.state.chunkKeys[1])
  /\ ~Has(bucket, loc.state.chunkKeys[2])
  /\ ~Has(bucket, StateKey(resp.jobId))

\* C7: a step that completes a job publishes the features of every chunk the
\* job has checkpointed, also after a finalize that failed before publishing.
C7_ChunksSurviveFailedFinalize ==
  resp.kind = "completed" =>
    /\ Has(bucket, DocKey)
    /\ Range(committed[resp.jobId]) \subseteq Range(DocFeatures)

\* Whether the Authorization header carries the configured secret.
CarriesSecret(h) == h.cred = RegenToken

\* C8: a regenerate request to either worker whose bearer token is missing
\* or is not the configured secret is answered 401, makes no storage or
\* upstream call, leaves every store as it was and starts no prewarm.
C8_UnauthorizedNoEffect ==
  [][(op'.kind \in {"orgRegenerate", "regenerate", "regenerate-noflush"}
        /\ ~CarriesSecret(op'.hdr)) =>
       /\ op'.kind = "orgRegenerate" => (resp'.status = 401 /\ io' = <<>>)
       /\ op'.kind # "orgRegenerate" => (nresp'.status = 401 /\ nio' = <<>>)
       /\ UNCHANGED <<bucket, minted, committed, images, netmap, bg>>]_vars

\* C8 witness: both workers have refused a request while a checkpoint, the
\* documents and a cached image were stored and prewarm items were pending.
C8_Witness ==
  /\ resp.status = 401
  /\ nresp.status = 401
  /\ ~CarriesSecret(op.hdr)
  /\ \E j \in ClientJobIds : Has(bucket, StateKey(j))
  /\ Has(netmap, NetDocKey)
  /\ images # EmptyBucket
  /\ bg # EmptyBag

\* C9: an image request whose record id does not match the pattern or whose
\* index is not an integer of 0..5 is answered 400 with no cache read and no
\* upstream call.
C9_BadPathRejected ==
  (op.kind \in {"img", "image"}
     /\ (~ (Len(op.parts) >= 1 /\ isValidRecordId(op.parts[1]))
           \/ ~ (Len(op.parts) >= 2
                  /\ NumberOfString(op.parts[2]) \in {JNum(k) : k \in 0..5}))) =>
    (nresp.status = 400 /\ nio = <<>>)

\* C9 witness: index 6 of a cached record was refused.
C9_Witness ==
  /\ op.kind = "img"
  /\ op.parts = <<RecA, "6">>
  /\ nresp.status = 400
  /\ Has(images, r2Key(RecA, 0))

\* C10: a valid image request that finds the cache without its key, with the
\* upstream answering, makes one record fetch and one bytes fetch, answers
\* 200 with the image and hands the cache put to the background; one that
\* finds the key answers 200 from the cache with no upstream call.
C10_PullThroughThenCached ==
  [][(op'.kind \in {"img", "image"} /\ Len(op'.parts) >= 2
        /\ isValidRecordId(op'.parts[1])
        /\ NumberOfString(op'.parts[2]) \in {JNum(k) : k \in 0..5}) =>
       LET id == op'.parts[1]
           index == NumberOfString(op'.parts[2]).n
           key == r2Key(id, index)
           held == {r \in Range(NetTable) : r.id = id}
           urls == UNION {{collectPhotoUrls(Field(r, IF op'.kind = "img" THEN "Photo"
                                                             ELSE "Image"))} : r \in held}
       IN
       /\ Has(images, key) =>
            /\ nresp' = NResp(200, "cache", images[key], 0)
            /\ nio' = <<NGet(key)>>
            /\ bg' = bg
       /\ (~Has(images, key) /\ op'.fault = "none") =>
            \A u \in urls :
              index + 1 <= Len(u) =>
                /\ nresp' = NResp(200, "origin", Bytes(u[index + 1]), 0)
                /\ nio' = <<NGet(key), NRecord(id), NFetch(u[index + 1])>>
                /\ bg' = bg (+) SetToBag({Task("put", id, index, u[index + 1], TRUE)})]_vars

\* C10 witness: a request answered from the cache after the background put
\* of an earlier miss.
C10_Witness ==
  /\ op.kind = "img"
  /\ op.parts = <<RecA, "0">>
  /\ nresp = NResp(200, "cache", Bytes("pA0"), 0)
  /\ nio = <<NGet(r2Key(RecA, 0))>>
  /\ bg = EmptyBag

\* A request to an image route with a well-formed record id and index, and
\* the cache key it reads.
ImageOp(o) ==
  /\ o.kind \in {"img", "image"}
  /\ Len(o.parts) >= 2
  /\ isValidRecordId(o.parts[1])
  /\ NumberOfString(o.parts[2]) \in {JNum(k) : k \in 0..5}
KeyOf(o) == r2Key(o.parts[1], NumberOfString(o.parts[2]).n)

\* C11 as claimed: every image request that misses the cache hands exactly
\* one cache put to the background.
C11_EveryMissWritesOnce ==
  [][(ImageOp(op') /\ ~Has(images, KeyOf(op'))) =>
       BagCardinality(bg') = BagCardinality(bg) + 1]_vars

\* C11 amended: an image request that misses the cache and is answered 200
\* hands exactly one put of the served bytes under its key to the
\* background, one answered with an error hands over none; the put runs
\* after the response and, accepted or rejected, leaves the response alone.
C11_ServedMissWritesOnce ==
  [][/\ (ImageOp(op') /\ ~Has(images, KeyOf(op'))) =>
          IF nresp'.status = 200
            THEN /\ nresp'.source = "origin"
                 /\ nresp'.body.bytes # ""
                 /\ bg' = bg (+) SetToBag({Task("put", KeyOf(op').id, KeyOf(op').index,
                                                 nresp'.body.bytes, TRUE)})
            ELSE bg' = bg
     /\ op'.kind = "bgPut" =>
          /\ nresp' = nresp
          /\ BagCardinality(bg') = BagCardinality(bg) - 1
          /\ op'.fault = "put" => images' = images]_vars

\* C11 witness: the put of a served miss was rejected; the response stands
\* and the cache is still empty.
C11_Witness ==
  /\ op.kind = "bgPut"
  /\ op.fault = "put"
  /\ nresp.status = 200
  /\ nresp.source = "origin"
  /\ images = EmptyBucket
  /\ bg = EmptyBag

\* The attachment field an image route serves, and the urls the table holds
\* for a request (none when the table has no such record).
FieldOf(o) == IF o.kind = "img" THEN "Photo" ELSE "Image"
HasRecord(o) == \E r \in Range(NetTable) : r.id = o.parts[1]
UrlsOf(o) ==
  IF HasRecord(o)
    THEN collectPhotoUrls(Field(CHOOSE r \in Range(NetTable) : r.id = o.parts[1], FieldOf(o)))
    ELSE <<>>

\* C12: an image request that misses the cache is answered with a 4xx status
\* when the table has no such record or the record's field has no url at
\* the index, and with the upstream status when the bytes fetch fails.
C12_MissErrorStatus ==
  (ImageOp(op) /\ ~Has(images, KeyOf(op))) =>
    /\ (op.fault # "record" /\ KeyOf(op).index + 1 > Len(UrlsOf(op))) =>
         nresp.status \in 400..499
    /\ (op.fault = "bytes" /\ KeyOf(op).index + 1 <= Len(UrlsOf(op))) =>
         nresp.status = 502

\* C13: an image request answered 200 is answered with the bytes of the
\* requested field's attachment at the requested index, never with bytes
\* cached for the record's other field.
C13_FieldsKeptApart ==
  (ImageOp(op) /\ nresp.status = 200) =>
    /\ KeyOf(op).index + 1 <= Len(UrlsOf(op))
    /\ nresp.body.bytes = UrlsOf(op)[KeyOf(op).index + 1]

\* C14: a no-flush prewarm item that finds its key in the cache asks for the
\* key and does nothing else, so the entry keeps its value; a flush item
\* that does not fail fetches and overwrites its key, cached or not.
C14_FlushModes ==
  [][op'.kind = "bgPrewarm" =>
       \A w \in BagToSet(bg) :
         bg' = bg (-) SetToBag({w}) =>
           LET key == r2Key(w.id, w.index) IN
           /\ (~w.flush /\ Has(images, key)) =>
                (bio' = <<NHead(key)>> /\ images' = images)
           /\ (w.flush /\ op'.fault = "none") =>
                /\ bio' = <<NFetch(w.url), NPut(key)>>
                /\ images' = Put(images, key, Bytes(w.url))]_vars

\* C14 witness: a no-flush item has found its key cached and stopped there.
C14_Witness ==
  /\ op.kind = "bgPrewarm"
  /\ bio = <<NHead(r2Key(RecA, 0))>>
  /\ Has(images, r2Key(RecA, 0))

\* C15: a prewarm item that fails changes no response and no cache entry,
\* and takes only itself off the pending work: every other item of the
\* batch is still to run.
C15_FailedItemSkipped ==
  [][op'.kind = "bgPrewarm" =>
       /\ nresp' = nresp
       /\ resp' = resp
       /\ \E w \in BagToSet(bg) : w.kind = "prewarm" /\ bg' = bg (-) SetToBag({w})
       /\ op'.fault # "none" => images' = images]_vars

\* C15 witness: the fetch of a flush item has failed; the regenerate stands
\* answered 200, the cache is as it was and the batch's other item is
\* still pending.
C15_Witness ==
  /\ op.kind = "bgPrewarm"
  /\ op.fault = "fetch"
  /\ bio = <<NFetch("pA0")>>
  /\ nresp.status = 200
  /\ images = EmptyBucket
  /\ bg = SetToBag({Task("prewarm", RecA, 0, "iA0", TRUE)})

(* ------------------ C16: records that yield no feature ------------------ *)

\* Both publishers side by side: export steps of one run, and regenerations
\* of the polygon map.
NextFeatures == ClientStep \/ NetRegenerate
SpecFeatures == Init /\ [][NextFeatures]_vars

\* C16: a record whose latitude or longitude is missing or not finite adds no
\* feature to the step's output and the step still answers 200; every other
\* fetched record adds exactly one feature, in order, and the step reports
\* processed = the number of features.  The polygon publisher likewise keeps
\* exactly the records whose geometry parses to a typed value.
C16_UnusableRecordsSkipped ==
  /\ resp.kind \in {"in_progress", "completed"} =>
       /\ resp.status = 200
       /\ Ids(loc.features) =
            SelectSeq(Ids(loc.fetched.records), LAMBDA id : id \notin bad)
       /\ resp.kind = "in_progress" => resp.processed = Len(loc.features)
  /\ nresp.source = "regenerated" =>
       /\ nresp.status = 200
       /\ Ids(Parse(netmap[NetDocKey]).features) = <<RecA, RecE>>
       /\ nresp.features = 2

\* A step that fetched a record with an unusable longitude and left it out,
\* next to a regeneration that left out the three records without geometry.
C16_Witness ==
  /\ resp.kind = "in_progress"
  /\ \E i \in DOMAIN loc.fetched.records :
       /\ loc.fetched.records[i].id \in bad
       /\ ~isFinite(toNum(loc.fetched.records[i].lon))
  /\ resp.processed = Len(loc.fetched.records) - 1
  /\ nresp.source = "regenerated"
  /\ Len(NetTable) = 5

(* --------------------- C17: the property normalizers -------------------- *)

MaxItems == 3

Texts == {<<>>, <<"A">>, <<"B">>, <<" ", "A">>, <<"A", " ">>, <<" ">>}
Scalars == {VNull, VNum(5)} \cup {VStr(x) : x \in Texts}
Keys == {"email", "name", "text", "value", "other"}
Objects ==
  {VObj(<<Member(k, x)>>) :
     k \in Keys,
     x \in {VNull, VStr(<<"X">>), VStr(<<" ", "A">>),
            VList(<<VStr(<<"A">>), VStr(<<"B", " ">>)>>)}}
  \cup {VObj(<<Member(m[1], m[2]), Member(m[3], m[4])>>) :
          m \in {n \in Keys \X {VNull, VStr(<<" ", "A">>), VStr(<<"B">>)}
                        \X Keys \X {VNull, VStr(<<" ", "A">>), VStr(<<"B">>)} :
                   n[1] # n[3]}}
Items ==
  Scalars \cup {VObj(<<Member("name", VStr(<<"X">>))>>),
                VObj(<<Member("other", VStr(<<" ", "A">>))>>),
                VList(<<VStr(<<"A">>), VStr(<<"B">>)>>),
                VList(<<VStr(<<" ", "A", " ">>), VList(<<VStr(<<"A">>)>>)>>)}
Lists == UNION {{VList(l) : l \in [1..n -> Items]} : n \in 0..MaxItems}
FieldValues == Scalars \cup Objects \cup Lists

\* A feature builder normalizes one field value; the published string is
\* normalized once more.
Normalize ==
  /\ norm = NoNorm
  /\ \E fn \in {"normalizeValue", "normalizeTextField"}, v \in FieldValues :
       LET once == IF fn = "normalizeValue" THEN normalizeValue(v)
                   ELSE normalizeTextField(v)
           twice == IF fn = "normalizeValue" THEN normalizeValue(VStr(once))
                    ELSE normalizeTextField(VStr(once))
       IN norm' = Norm(fn, v, once, twice)
  /\ op' = Op("normalize", NoHeader, <<>>, "none")
  /\ UNCHANGED <<table, bad, pageLimit, bucket, minted, resp, loc, io, committed, cl, drv>>
  /\ UNCHANGED netVars
  /\ UNCHANGED <<calls, seen, pool>>

SpecNormalize == InitOne /\ [][Normalize]_vars

\* C17: both normalizers are idempotent -- normalizing the string a
\* normalizer returned gives that string back, for every field value -- and
\* ["A","A","B"] normalizes to "A, B" and {name:"X"} to "X".
C17_NormalizerIdempotent ==
  norm.fn # "none" =>
    /\ norm.twice = norm.once
    /\ norm.value = VList(<<VStr(<<"A">>), VStr(<<"A">>), VStr(<<"B">>)>>) =>
         norm.once = <<"A", ",", " ", "B">>
    /\ norm.value = VObj(<<Member("name", VStr(<<"X">>))>>) =>
         norm.once = <<"X">>

\* A list with padded duplicates and an object, which normalizeValue turns
\* into a string unlike any of its items.
C17_Witness ==
  /\ norm.fn = "normalizeValue"
  /\ norm.value = VList(<<VStr(<<" ", "A">>), VStr(<<"A", " ">>),
                          VObj(<<Member("name", VStr(<<"X">>))>>)>>)
  /\ norm.once = <<"A", ",", " ", "X">>
  /\ norm.twice = norm.once

(* ------------------ C19: the chunk keys of a checkpoint ----------------- *)

\* The number a string of decimal digits writes.
RECURSIVE DigitsValue(_)
DigitsValue(d) ==
  IF d = <<>> THEN 0 ELSE 10 * DigitsValue(SubSeq(d, 1, Len(d) - 1)) + d[Len(d)]

\* C19: with steps that follow one another and jobs that start without a
\* checkpoint, every stored checkpoint has chunkCount = the number of its
\* chunk keys, and its i-th key is a chunk key of that job carrying the
\* number i padded to four digits; so its keys are distinct and increasing.
C19_ChunkKeysNumbered ==
  \A j \in JobIds :
    Has(bucket, StateKey(j)) =>
      LET st == Parse(bucket[StateKey(j)]) IN
      /\ st.chunkCount = Len(st.chunkKeys)
      /\ \A i \in DOMAIN st.chunkKeys :
           /\ st.chunkKeys[i].kind = "chunk"
           /\ st.chunkKeys[i].job = j
           /\ Len(st.chunkKeys[i].seq) = 4
           /\ DigitsValue(st.chunkKeys[i].seq) = i
      /\ \A i, k \in DOMAIN st.chunkKeys :
           i < k => /\ st.chunkKeys[i] # st.chunkKeys[k]
                    /\ DigitsValue(st.chunkKeys[i].seq) < DigitsValue(st.chunkKeys[k].seq)

\* A checkpoint written by the second step of a job: two keys, 0001 and 0002.
C19_Witness ==
  \E j \in JobIds :
    /\ Has(bucket, StateKey(j))
    /\ Parse(bucket[StateKey(j)]).chunkCount = 2
    /\ io # <<>>
    /\ io[Len(io)] = IoPut(StateKey(j))

(* ---------------- C20: chunks listed by a checkpoint exist -------------- *)

\* A step may stop at its read of the checkpoint, at an upstream page, at
\* its put of the chunk or at its put of the checkpoint; what it wrote before
\* stays.  Finalize steps run to their end.
ClientStepCrashing == Call({NoFault} \cup FetchFaults \cup WriteFaults)
NextCrash == ClientStepCrashing
SpecCrash == InitPlain /\ [][NextCrash]_vars

\* C20: every chunk key a stored checkpoint lists names an object in the
\* bucket, whatever steps stopped half way before.
C20_ListedChunksPresent ==
  \A j \in JobIds :
    Has(bucket, StateKey(j)) =>
      \A i \in DOMAIN Parse(bucket[StateKey(j)]).chunkKeys :
        Has(bucket, Parse(bucket[StateKey(j)]).chunkKeys[i])

\* A second step stopped at its put of the checkpoint: chunk 0002 is stored
\* and the checkpoint still lists chunk 0001 alone.
C20_Witness ==
  \E j \in JobIds :
    /\ resp.kind = "error"
    /\ io # <<>>
    /\ io[Len(io)] = IoPut(StateKey(j))
    /\ Has(bucket, StateKey(j))
    /\ Parse(bucket[StateKey(j)]).chunkKeys = <<ChunkKey(j, 1)>>
    /\ Has(bucket, ChunkKey(j, 2))

(* ------------- C18: step invocations of one job that overlap ------------ *)

\* The job all the invocations name, each without a cursor of its own.
RaceJob == <<"client", 1>>
Running(c) == c.pc \notin {"idle", "done"}

\* The key of the chunk an invocation writes.
nextChunkKeyFirst(state) == ChunkKey(RaceJob, 1)
nextChunkKey(state) == ChunkKey(RaceJob, state.chunkCount + 1)

\* The checkpoint an invocation writes after its chunk.
nextState(c) ==
  [c.state EXCEPT !.cursor = c.nextCursor,
                  !.chunkCount = c.state.chunkCount + 1,
                  !.chunkKeys = Append(c.state.chunkKeys, nextChunkKey(c.state)),
                  !.totalFeatures = c.state.totalFeatures + Len(c.features)]

StepTaken(kind) ==
  /\ op' = Op(kind, GoodHeader, <<>>, "none")
  /\ UNCHANGED <<table, bad, pageLimit, minted, resp, loc, io, committed, cl, drv>>
  /\ UNCHANGED <<netVars, norm, pool>>

\* await readState(...): the invocation starts and reads the checkpoint.
StepBegin(k) ==
  /\ calls[k].pc = "idle"
  /\ \A h \in 1..(k - 1) : calls[h].pc # "idle"
  /\ LET existing == readState(bucket, StateKey(RaceJob))
         state == IF existing.found THEN existing.value ELSE FreshState(RaceJob)
     IN calls' = [calls EXCEPT ![k] = StepCall("fetch", state, <<>>, NoCursor, 0, <<>>, FALSE)]
  /\ seen' = [seen EXCEPT !.overlapped = @ \/ \E h \in 1..MaxCalls : Running(calls[h])]
  /\ UNCHANGED bucket
  /\ StepTaken("stepBegin")

\* await fetchAirtableChunk(...), then recordsToFeatures.
StepFetch(k) ==
  /\ calls[k].pc = "fetch"
  /\ LET c == calls[k]
         offset == IF c.state.cursor = EmptyCursor THEN NoCursor ELSE c.state.cursor
         fetched == fetchAirtableChunk(table, offset, MaxPagesPerStep, 0)
         more == fetched.nextCursor # NoCursor
     IN calls' = [calls EXCEPT ![k] =
                    [c EXCEPT !.pc = IF more THEN "putChunk"
                                     ELSE IF c.state.chunkKeys = <<>> THEN "putDoc"
                                     ELSE "replayGet",
                              !.features = recordsToFeatures(fetched.records),
                              !.nextCursor = fetched.nextCursor,
                              !.i = 1]]
  /\ UNCHANGED <<bucket, seen>>
  /\ StepTaken("stepFetch")

\* await put(chunkKey, ...)
StepPutChunk(k) ==
  /\ calls[k].pc = "putChunk"
  /\ bucket' = Put(bucket, nextChunkKey(calls[k].state), Stringify(calls[k].features))
  /\ calls' = [calls EXCEPT ![k].pc = "putState"]
  /\ UNCHANGED seen
  /\ StepTaken("stepPutChunk")

\* await put(stateKey, ...), and the in_progress answer.
StepPutState(k) ==
  /\ calls[k].pc = "putState"
  /\ bucket' = Put(bucket, StateKey(RaceJob), Stringify(nextState(calls[k])))
  /\ calls' = [calls EXCEPT ![k].pc = "done"]
  /\ seen' = [seen EXCEPT
                !.lost = @ \/ /\ Has(bucket, StateKey(RaceJob))
                              /\ Parse(bucket[StateKey(RaceJob)]).chunkCount
                                   > nextState(calls[k]).chunkCount,
                !.revived = @ \/ (calls[k].stale /\ ~Has(bucket, StateKey(RaceJob)))]
  /\ StepTaken("stepPutState")

\* await get(key) of the replay; a chunk that is not there is passed over.
StepReplayGet(k) ==
  /\ calls[k].pc = "replayGet"
  /\ LET c == calls[k]
         key == c.state.chunkKeys[c.i]
     IN calls' = [calls EXCEPT ![k] =
                    IF Has(bucket, key)
                      THEN [c EXCEPT !.pc = "replayDelete",
                                     !.allFeatures = @ \o Parse(bucket[key])]
                      ELSE [c EXCEPT !.pc = IF c.i = Len(c.state.chunkKeys)
                                              THEN "putDoc" ELSE "replayGet",
                                     !.i = @ + 1]]
  /\ UNCHANGED <<bucket, seen>>
  /\ StepTaken("stepReplayGet")

\* await delete(key) of the replay
StepReplayDelete(k) ==
  /\ calls[k].pc = "replayDelete"
  /\ LET c == calls[k] IN
     /\ bucket' = Delete(bucket, c.state.chunkKeys[c.i])
     /\ calls' = [calls EXCEPT ![k] =
                    [c EXCEPT !.pc = IF c.i = Len(c.state.chunkKeys)
                                       THEN "putDoc" ELSE "replayGet",
                              !.i = @ + 1]]
  /\ UNCHANGED seen
  /\ StepTaken("stepReplayDelete")

\* await put(targetKey, fc, ...)
StepPutDoc(k) ==
  /\ calls[k].pc = "putDoc"
  /\ bucket' = Put(bucket, DocKey,
                   Stringify(FeatureCollection(calls[k].allFeatures \o calls[k].features)))
  /\ calls' = [calls EXCEPT ![k].pc = "deleteState"]
  /\ UNCHANGED seen
  /\ StepTaken("stepPutDoc")

\* await delete(stateKey), and the completed answer.
StepDeleteState(k) ==
  /\ calls[k].pc = "deleteState"
  /\ bucket' = Delete(bucket, StateKey(RaceJob))
  /\ calls' = [h \in 1..MaxCalls |->
                IF h = k THEN [calls[h] EXCEPT !.pc = "done"]
                ELSE IF Running(calls[h]) /\ Has(bucket, StateKey(RaceJob))
                  THEN [calls[h] EXCEPT !.stale = TRUE]
                ELSE calls[h]]
  /\ UNCHANGED seen
  /\ StepTaken("stepDeleteState")

NextOverlap ==
  \E k \in 1..MaxCalls :
    \/ StepBegin(k) \/ StepFetch(k) \/ StepPutChunk(k) \/ StepPutState(k)
    \/ StepReplayGet(k) \/ StepReplayDelete(k) \/ StepPutDoc(k) \/ StepDeleteState(k)
SpecOverlap == InitPlain /\ [][NextOverlap]_vars

Quiet == \A k \in 1..MaxCalls : ~Running(calls[k])

\* C18: it is overlap that corrupts.  As long as no invocation of the job
\* began while another was running, no checkpoint is put over a newer one,
\* none comes back after a finalize deleted it, and a published document
\* holds every page batch once, in order.
C18_OnlyOverlapCorrupts ==
  ~seen.overlapped =>
    /\ ~seen.lost
    /\ ~seen.revived
    /\ Has(bucket, DocKey) => bucket[DocKey] = OneShot.bucket[DocKey]

\* Two finalizing invocations overlapped and all is over: the published
\* document lacks a page batch, its chunk having been deleted by the other
\* invocation before this one read it.
C18_Witness ==
  /\ seen.overlapped
  /\ Quiet
  /\ Has(bucket, DocKey)
  /\ ~Has(bucket, StateKey(RaceJob))
  /\ Len(DocFeatures) < Len(Parse(OneShot.bucket[DocKey]).features)

\* A checkpoint was put over one with a higher chunkCount.
C18_LostUpdate == seen.overlapped /\ seen.lost /\ Has(bucket, StateKey(RaceJob))

\* A checkpoint is back after a finalize deleted it, and nothing runs.
C18_Revived ==
  seen.overlapped /\ seen.revived /\ Quiet /\ Has(bucket, StateKey(RaceJob))

(* --------------- C21: who writes the published document ----------------- *)

\* The object stored at objectKey, if any.
DocOf(b) == IF Has(b, DocKey) THEN <<b[DocKey]>> ELSE <<>>

\* C21: a step that answers in_progress makes no put of the document and
\* leaves the object at objectKey as it was; the object changes only in a
\* step that answers completed.
C21_InProgressKeepsDocument ==
  [][/\ (op'.kind = "orgRegenerate" /\ resp'.kind = "in_progress") =>
          /\ DocOf(bucket') = DocOf(bucket)
          /\ IoPut(DocKey) \notin Range(io')
     /\ DocOf(bucket') # DocOf(bucket) =>
          (op'.kind = "orgRegenerate" /\ resp'.kind = "completed")]_vars

\* A step of a later run answered in_progress while the document of the
\* run before is still published.
C21_Witness ==
  /\ op.kind = "orgRegenerate"
  /\ resp.kind = "in_progress"
  /\ Has(bucket, DocKey)
  /\ Has(bucket, StateKey(resp.jobId))

(* ------------------- C22: the cursor a step starts from ----------------- *)

\* A step request whose body names the job and carries any cursor or none;
\* the request remembers the cursor it carried.
StepWithCursor ==
  /\ \E j \in ClientJobIds, c \in PayloadCursors :
       /\ LET out == ServeOut(GoodHeader, j, c, NoFault) IN
            out.resp.kind = "in_progress" =>
              Parse(out.bucket[StateKey(JobOf(j))]).chunkCount <= MaxChunks
       /\ ServeAs(GoodHeader, j, c, NoFault, <<c>>)
  /\ UNCHANGED <<cl, drv>>

NextOverride == StepWithCursor
SpecOverride == InitPlain /\ [][NextOverride]_vars

\* The checkpoint cursor stored for a job; none when there is no checkpoint.
StoredCursor(b, j) ==
  IF Has(b, StateKey(j)) THEN Parse(b[StateKey(j)]).cursor ELSE NoCursor

\* C22: the first page a step asks for is the page of the body's cursor when
\* the body carries one (the first page for the empty string), and otherwise
\* the page of the cursor stored in the checkpoint, or the first page when
\* there is no checkpoint.
C22_BodyCursorFirst ==
  [][op'.kind = "orgRegenerate" =>
       /\ loc'.fetched.reqs # <<>>
       /\ loc'.fetched.reqs[1] =
            IF op'.parts[1] = EmptyCursor THEN NoCursor
            ELSE IF op'.parts[1] # NoCursor THEN op'.parts[1]
            ELSE StoredCursor(bucket, loc'.jobId)]_vars

\* A step whose body carried the token of page 2 while the checkpoint held
\* the token of page 3: it asked for page 2.
C22_Witness ==
  /\ op.kind = "orgRegenerate"
  /\ op.parts = <<2>>
  /\ loc.state.cursor = 3
  /\ loc.fetched.reqs[1] = 2
  /\ resp.kind = "in_progress"

(* ---------------- C23: a refused upstream page request ------------------ *)

\* The puts and deletes among the calls of the step taken last.
Writes == SelectSeq(io, LAMBDA c : c.op \in {"put", "delete"})

\* C23 as claimed: when a page request of a step is refused, the error
\* names the table and the status, the step uses no record, answers 500 and
\* has written nothing.
C23_UpstreamErrorNamesTable ==
  loc.fetched.threw =>
    /\ tableName \in Range(loc.fetched.error)
    /\ \E st \in {422, 500} : ToString(st) \in Range(loc.fetched.error)
    /\ loc.fetched.records = <<>>
    /\ loc.features = <<>>
    /\ resp.status = 500
    /\ Writes = <<>>

(* ------------------- C24: the driver comes to an end -------------------- *)

\* Tables of a few pages, and one with a page more than the driver has
\* iterations.
LongPages == maxIterations + 1

InitLong ==
  /\ \E P \in (1..MaxUpstreamPages) \cup {LongPages}, lastLen \in 0..PageSize :
       table = MakeTable(P, lastLen, {})
  /\ bad = {}
  /\ pageLimit \in PageLimits
  /\ bucket = EmptyBucket
  /\ minted = 0
  /\ resp = NoResp
  /\ loc = NoLocals
  /\ io = <<>>
  /\ committed = [j \in JobIds |-> <<>>]
  /\ cl = Idle
  /\ drv = NoDriver
  /\ images = EmptyBucket
  /\ netmap = EmptyBucket
  /\ bg = EmptyBag
  /\ nresp = NoNResp
  /\ nio = <<>>
  /\ bio = <<>>
  /\ norm = NoNorm
  /\ calls = [k \in 1..MaxCalls |-> NoCall]
  /\ seen = NoSeen
  /\ pool = NoPool
  /\ op = NoOp

\* One run of the driver; every internal call gets a job id of its own.
AutoIterLong == AutoIterWithin(maxIterations)
NextLong == AutoStart \/ AutoIterLong
SpecLong == InitLong /\ [][NextLong]_vars

\* C24: every pass of a running driver either ends it or counts one more
\* internal call, and the count never passes 100, so the driver ends after
\* at most 100 internal calls.  It ends with completed in the very pass
\* whose internal call answered completed; every other end is a 500 answer.
C24_DriverTerminates ==
  [][drv.pc = "running" =>
       /\ \/ drv'.pc = "done"
          \/ drv'.pc = "running" /\ drv'.iterations = drv.iterations + 1
       /\ drv'.iterations <= maxIterations
       /\ op'.kind = "orgRegenerate" =>
            /\ drv.iterations < maxIterations
            /\ drv'.iterations = drv.iterations + 1
            /\ resp'.kind = "completed" =>
                 (drv'.pc = "done" /\ drv'.result = resp')
       /\ drv'.pc = "done" =>
            \/ drv'.result.kind = "completed" /\ resp'.kind = "completed"
            \/ drv'.result.kind = "error" /\ drv'.result.status = 500]_vars

\* The driver made its hundredth internal call, which answered in_progress
\* with a cursor, and ended with the error of the iteration ceiling.
C24_Witness ==
  /\ drv.pc = "done"
  /\ drv.iterations = maxIterations
  /\ drv.result.kind = "error"
  /\ resp.kind = "in_progress"
  /\ resp.nextCursor # NoCursor

(* --------------------------- prewarm, step by step --------------------- *)

\* The workers of one field's pool run until each awaits I/O or is done.
\* A url of collectPhotoUrls is never empty, so every callback reaches its
\* first await: the head in no-flush mode, the fetch otherwise.
RECURSIVE attachDrain(_, _)
attachDrain(A, flush) ==
  IF Ready(A.P) = {} THEN A
  ELSE LET k == First(Ready(A.P))
           Q == claim(A.P, k)
           cur == Q.w[k].cur
       IN attachDrain(Attach(A.tasks, Q,
                             IF cur = 0 THEN A.pending
                             ELSE [A.pending EXCEPT ![cur] = IF flush THEN "fetch" ELSE "head"]),
                      flush)

\* prewarmAttachments up to its await of withConcurrency(tasks, 4, ...).
prewarmAttachmentsRun(urlStrings, flush) ==
  LET tasks == SubSeq(urlStrings, 1, Min(maxCount, Len(urlStrings))) IN
  attachDrain(Attach(tasks, withConcurrency(Len(tasks), attachmentLimit),
                     [t \in 1..Len(tasks) |-> "none"]), flush)

\* The callback of prewarmAll on record r runs until it awaits a field's
\* prewarm or returns: the Photo field, then the Image field, each only if
\* it has urls.
RECURSIVE recordFn(_, _, _)
recordFn(r, F, flush) ==
  IF F.field = "end" THEN F
  ELSE IF ~allDone(F.at.P) THEN F
  ELSE LET next == IF F.field = "none" THEN "Photo"
                   ELSE IF F.field = "Photo" THEN "Image" ELSE "end"
           fin == IF F.at.P.n = 0 THEN F.fin ELSE Append(F.fin, F.at.P)
       IN IF next = "end" THEN RecordFn("end", NoAttach, fin)
          ELSE LET urls == collectPhotoUrls(Field(r, next)) IN
               recordFn(r, RecordFn(next,
                                    IF urls = <<>> THEN NoAttach
                                    ELSE prewarmAttachmentsRun(urls, flush),
                                    fin),
                        flush)

\* The workers of prewarmAll run until each awaits a record or is done.
RECURSIVE poolDrain(_)
poolDrain(S) ==
  LET P1 == [S.P EXCEPT !.st = [t \in DOMAIN S.P.st |->
                                 IF S.P.st[t] = "run" /\ S.fn[t].field = "end"
                                   THEN "settled" ELSE S.P.st[t]]]
  IN
  IF Ready(P1) = {}
    THEN PrewarmRun(IF allDone(P1) THEN "done" ELSE "running", S.flush, S.records, P1, S.fn)
  ELSE LET k == First(Ready(P1))
           Q == claim(P1, k)
           cur == Q.w[k].cur
       IN poolDrain(PrewarmRun(S.phase, S.flush, S.records, Q,
                               IF cur = 0 THEN S.fn
                               ELSE [S.fn EXCEPT ![cur] = recordFn(S.records[cur], NewFn, S.flush)]))

\* prewarmAll up to its await of withConcurrency(records, 10, ...).
prewarmAllRun(records, flush) ==
  poolDrain(PrewarmRun("running", flush, records,
                       withConcurrency(Len(records), recordLimit),
                       [t \in 1..Len(records) |-> NewFn]))

\* The I/O that url t of record r awaits ends with outcome "ok", "miss"
\* (no such key, or a response that is not ok) or "throw"; the callback
\* goes on to its next await or returns, and everything that waited for it
\* runs on.
ioDone(S, r, t, outcome) ==
  LET F == S.fn[r]
      A == F.at
      step == A.pending[t]
      goesOn == \/ step = "head" /\ outcome = "miss"
                \/ step = "fetch" /\ outcome = "ok"
      A1 == IF goesOn
              THEN Attach(A.tasks, A.P, [A.pending EXCEPT ![t] = IF step = "head" THEN "fetch" ELSE "put"])
              ELSE attachDrain(Attach(A.tasks, settle(A.P, t), [A.pending EXCEPT ![t] = "none"]),
                               S.flush)
      F1 == recordFn(S.records[r], RecordFn(F.field, A1, F.fin), S.flush)
  IN poolDrain(PrewarmRun(S.phase, S.flush, S.records, S.P, [S.fn EXCEPT ![r] = F1]))

\* Record ids of a table with more records than prewarmAll has workers.
ManyIds ==
  [k \in 1..(recordLimit + 1) |->
     MkId(<<"r", "e", "c">>, <<"a", "b", "c", "d", "e", "f", "g", "h", "i", "j", "k">>[k], 14)]
\* Attachment urls that answer no image: the fetch is refused.
DeadUrls == {"d0", "d1", "d2", "d3", "d4", "d5"}

\* recordLimit + 1 records: the first with more photos than a record's
\* pool has workers, the others with one dead photo each.
ManyRecords ==
  [k \in 1..(recordLimit + 1) |->
     [id |-> ManyIds[k], Polygon |-> NoGeometry,
      Photo |-> IF k = 1 THEN <<"d1", "d2", "d3", "d4", "d5">> ELSE <<"d0">>,
      Image |-> <<>>]]

\* A record with more photos than maxCount and images, and one without.
BusyRecords ==
  <<[id |-> RecA, Polygon |-> NoGeometry,
     Photo |-> <<"pA0", "d0", "pA2", "pA3", "pA4", "pA5", "pA6">>,
     Image |-> <<"iA0", "pA0">>],
    [id |-> RecB, Polygon |-> NoGeometry, Photo |-> <<>>, Image |-> <<>>]>>

\* The prewarms the model runs: the table and the mode.
PrewarmRuns ==
  {<<NetTable, TRUE>>, <<NetTable, FALSE>>, <<BusyRecords, TRUE>>,
   <<BusyRecords, FALSE>>, <<ManyRecords, TRUE>>}

\* ctx.waitUntil(prewarmAll(env, records, { flush })) starts to run.
PrewarmStart ==
  \E run \in PrewarmRuns :
    /\ pool.phase = "idle"
    /\ pool' = prewarmAllRun(run[1], run[2])
    /\ bio' = <<>>
    /\ op' = Op(IF run[2] THEN "prewarmAll" ELSE "prewarmAll-noflush", NoHeader, <<>>, "none")
    /\ UNCHANGED <<images, netmap, bg, nresp, nio>>
    /\ UNCHANGED <<table, bad, pageLimit, bucket, minted, resp, loc, io, committed, cl, drv>>
    /\ UNCHANGED <<norm, calls, seen>>

\* One pending I/O of the prewarm ends.
PrewarmIo ==
  \E r \in DOMAIN pool.fn :
    \E t \in DOMAIN pool.fn[r].at.pending, outcome \in {"ok", "miss", "throw"} :
      LET A == pool.fn[r].at
          step == A.pending[t]
          key == r2Key(pool.records[r].id, t - 1)
      IN
      /\ pool.phase = "running"
      /\ step # "none"
      /\ step = "head" => outcome = (IF Has(images, key) THEN "ok" ELSE "miss")
      /\ step = "fetch" /\ A.tasks[t] \in DeadUrls => outcome = "miss"
      /\ step = "put" => outcome # "miss"
      /\ pool' = ioDone(pool, r, t, outcome)
      /\ images' = IF step = "put" /\ outcome = "ok"
                      THEN Put(images, key, Bytes(A.tasks[t])) ELSE images
      /\ bio' = <<IF step = "head" THEN NHead(key)
                  ELSE IF step = "fetch" THEN NFetch(A.tasks[t]) ELSE NPut(key)>>
      /\ op' = Op("prewarmIo", NoHeader, <<>>, outcome)
      /\ UNCHANGED <<netmap, bg, nresp, nio>>
      /\ UNCHANGED <<table, bad, pageLimit, bucket, minted, resp, loc, io, committed, cl, drv>>
      /\ UNCHANGED <<norm, calls, seen>>

NextPool == PrewarmStart \/ PrewarmIo
SpecPool == InitOne /\ [][NextPool]_vars
\* The records whose callback has been invoked and has not returned, and
\* the urls of record r whose fetch has been issued and has not answered.
Processing == {r \in DOMAIN pool.fn : pool.fn[r].field \in {"Photo", "Image"}}
Fetching(r) == {t \in DOMAIN pool.fn[r].at.pending : pool.fn[r].at.pending[t] = "fetch"}

\* C25: during prewarm, at every moment at most 10 records are being
\* processed and at most 4 attachment fetches are in flight for any one
\* record.
C25_PrewarmBounded ==
  /\ Cardinality(Processing) <= 10
  /\ \A r \in DOMAIN pool.fn : Cardinality(Fetching(r)) <= 4

\* Ten records are in process while an eleventh waits, and one of them
\* has four fetches in flight while a fifth url waits.
C25_Witness ==
  /\ pool.phase = "running"
  /\ Cardinality(Processing) = 10
  /\ Len(pool.records) > 10
  /\ \E r \in Processing :
       /\ Cardinality(Fetching(r)) = 4
       /\ \E t \in DOMAIN pool.fn[r].at.P.st : pool.fn[r].at.P.st[t] = "todo"
\* Every withConcurrency of the prewarm, with the limit it was given: the
\* pool of the records, and per record the pool of the field it is at and
\* the pools of the fields it is through with.
PoolsOf ==
  {<<pool.P, recordLimit>>}
    \cup {<<pool.fn[r].at.P, attachmentLimit>> : r \in DOMAIN pool.fn}
    \cup UNION {{<<P, attachmentLimit>> : P \in Range(pool.fn[r].fin)} : r \in DOMAIN pool.fn}

ExactlyOnce(P) ==
  /\ \A t \in DOMAIN P.invoked : P.invoked[t] <= 1
  /\ \A t \in DOMAIN P.st : (P.st[t] = "todo") <=> (P.invoked[t] = 0)
  /\ allDone(P) => \A t \in DOMAIN P.invoked : P.invoked[t] = 1

\* C30: withConcurrency(items, limit, fn) invokes fn exactly once per item,
\* whether or not other items throw, never has more than
\* min(limit, items.length) invocations in flight, and completes once
\* every item has settled.
C30_WithConcurrency ==
  \A pl \in PoolsOf :
    /\ ExactlyOnce(pl[1])
    /\ InFlight(pl[1]) <= Min(pl[2], pl[1].n)
    /\ allDone(pl[1]) <=> (\A t \in DOMAIN pl[1].st : pl[1].st[t] = "settled")

\* A pool of more items than workers is done after an item threw, and so
\* is the pool of the records it ran in.
C30_Witness ==
  /\ pool.phase = "done"
  /\ op.fault = "throw"
  /\ \E r \in DOMAIN pool.fn : \E P \in Range(pool.fn[r].fin) :
       /\ P.n > attachmentLimit
       /\ allDone(P)
\* C26: a regeneration that fails before it has published the document
\* starts no prewarm, and the image cache is written only once a
\* regenerated document has been published.
C26_PrewarmAfterPublish ==
  /\ [][(op'.kind \in {"regenerate", "regenerate-noflush"} /\ nresp'.status # 200)
          => bg' = bg]_vars
  /\ [](images # EmptyBucket => Has(netmap, NetDocKey))
(* ------------------- C27: the reference normalizer --------------------- *)

\* The scalars of a value in reading order: nested lists flattened, empty
\* values dropped, an object standing for the first present of its email,
\* name, text and value members (for all its members when it has none).
RECURSIVE referenceScalars(_)
RECURSIVE referenceEach(_)
referenceEach(vs) ==
  IF vs = <<>> THEN <<>> ELSE referenceScalars(Head(vs)) \o referenceEach(Tail(vs))
referenceScalars(v) ==
  CASE v.t = "null" -> <<>>
    [] v.t = "list" -> referenceEach(v.items)
    [] v.t = "obj" ->
         LET cand == Coalesce(<<Get(v, "email"), Get(v, "name"),
                                Get(v, "text"), Get(v, "value")>>)
         IN IF cand.t # "null" THEN referenceScalars(cand)
            ELSE referenceEach(Values(v))
    [] OTHER -> NonEmpty(<<trimChars(String(v))>>)

\* Each distinct scalar once, joined with ", ".
referenceNormalize(v) == join(unique(referenceScalars(v)), <<",", " ">>)

\* C27: for every field value, each publisher's normalizer returns the
\* string of the reference normalizer.
C27_NormalizersMatchReference ==
  norm.fn # "none" => norm.once = referenceNormalize(norm.value)
(* ------------- C28: a step stopped between chunk and checkpoint -------- *)

ChunksOf(b, jobId) == {k \in DOMAIN b : k.kind = "chunk" /\ k.job = jobId}

\* C28: when a step has written its chunk and stopped before writing the
\* checkpoint, the next step of the same job that gets through reads the
\* same pages and writes them under the same chunk key, over the orphan,
\* so the job has no chunk more than its checkpoint lists; and the document
\* a run publishes holds every usable record of the table exactly once.
C28_RetryOverwritesOrphan ==
  /\ [][\A k \in cl.orphans :
          (op'.kind = "orgRegenerate" /\ resp'.kind = "in_progress" /\ loc'.jobId = k.job) =>
            /\ IoPut(k) \in Range(io')
            /\ bucket'[k] = bucket[k]
            /\ ChunksOf(bucket', k.job) = ChunksOf(bucket, k.job)
            /\ ChunksOf(bucket', k.job) = Range(Parse(bucket'[StateKey(k.job)]).chunkKeys)]_vars
  /\ [](cl.phase = "done" => Ids(DocFeatures) = GoodIds(1, UpstreamPages))

\* A run is through whose step was stopped after its chunk and sent again;
\* the table has more than one page for the document to repeat.
C28_Witness ==
  /\ cl.phase = "done"
  /\ cl.rewrote
  /\ cl.orphans = {}
  /\ Has(bucket, DocKey)
  /\ Len(DocFeatures) > PageSize
(* ----------------- C29: checkpoints carry a cursor --------------------- *)

\* C29: every stored checkpoint has a non-empty cursor, one that names a
\* page the upstream still has; every in_progress answer carries the
\* cursor its step stored, non-empty; and the driver never ends on an
\* in_progress answer without cursor.
C29_CheckpointHasCursor ==
  /\ \A j \in JobIds :
       Has(bucket, StateKey(j)) =>
         /\ StoredCursor(bucket, j) \notin {NoCursor, EmptyCursor}
         /\ StoredCursor(bucket, j) \in 2..Len(table)
  /\ resp.kind = "in_progress" =>
       /\ resp.nextCursor \notin {NoCursor, EmptyCursor}
       /\ Has(bucket, StateKey(resp.jobId))
       /\ StoredCursor(bucket, resp.jobId) = resp.nextCursor
  /\ (drv.pc # "idle" /\ resp.kind = "in_progress") =>
       /\ drv.cursor = resp.nextCursor
       /\ drv.pc = "done" => drv.iterations = maxIterations

\* The driver goes on with the cursor of an in_progress answer, which is
\* the one the step stored.
C29_Witness ==
  /\ drv.pc = "running"
  /\ drv.iterations = 2
  /\ resp.kind = "in_progress"
  /\ Has(bucket, StateKey(resp.jobId))
  /\ StoredCursor(bucket, resp.jobId) = drv.cursor
  /\ drv.cursor = 3
====
